---- MODULE Spec2Model ----
(***************************************************************************)
(* Order taking bot: the storage operations of backend/database.py (cart   *)
(* aggregation, order numbering, order creation) and the checkout          *)
(* and admin conversations of backend/bot.py.                              *)
(*                                                                         *)
(* The specifications share the variables:                                 *)
(*   SpecDb     the cart operations of database.py called one at a time,   *)
(*              as backend_test.py calls them;                             *)
(*   SpecSeq    get_next_order_number and create_order called one at a     *)
(*              time;                                                      *)
(*   SpecConc   get_next_order_number and create_order called from        *)
(*              independent tasks that interleave at every await;          *)
(*   SpecBot    the customer side of the bot: one action per update        *)
(*              handled, dispatched as main() registers the handlers;      *)
(*   SpecFlow   the checkout of SpecBot with two addresses and two names,  *)
(*              started with an order already stored;                      *)
(*   SpecAdmin  the checkout conversation and the admin conversation of an *)
(*              administrator, dispatched as main() registers them;        *)
(*   SpecRoles  the admin and receiver operations of database.py called    *)
(*              one at a time;                                             *)
(*   SpecRace   two tasks that each make one find-then-write call of       *)
(*              database.py and interleave between the two store steps;    *)
(*   SpecAccess the permission check of the admin handlers, with a         *)
(*              customer and an administrator who add and remove each      *)
(*              other;                                                     *)
(*   SpecFanout the loops of notify_new_order and admin_broadcast_handler  *)
(*              with deliveries that fail;                                 *)
(*   SpecCat    create_category, create_product and the three store        *)
(*              operations of delete_category;                             *)
(*   SpecOrders the stored orders under the cart operations, further       *)
(*              orders and update_order_status;                            *)
(*   SpecPress  the remove_ and del_ branches of admin_callback, one       *)
(*              invocation of the handler per step;                        *)
(*   SpecConfirm the customer side with confirm_order pressed in any       *)
(*              state;                                                     *)
(*   SpecDuel   remove_admin_ presses of two administrators handled by     *)
(*              tasks that interleave at the awaits;                       *)
(*   SpecOrphan two administrators who add subcategories and delete        *)
(*              categories;                                                *)
(*   SpecPair   two customers whose updates are handled in any order.      *)
(* Prices are floats in the source; the model keeps them as integers in    *)
(* hundredths.                                                             *)
(***************************************************************************)
EXTENDS Integers, Sequences, FiniteSets, TLC

\* ------------------------------------------------------------------ bounds

\* Largest quantity a cart line reaches in the model.
MaxQty == 2

\* Number of get_next_order_number and create_order calls of a run.
MaxCalls == 3

\* Number of orders the customers of SpecBot place.
MaxOrders == 1

\* Telegram ids of the customers, product ids, and the name/price pairs a
\* caller may pass as the snapshot of a product.
UserIds == {1, 2}
ProductIds == {"a", "b"}
Snapshots == {[product_name |-> "n1", price |-> 150],
              [product_name |-> "n2", price |-> 2490]}

None == "None"

VARIABLES
    users,      \* users_collection: telegram_id -> [cart, phone]
    counters,   \* counters_collection: _id -> [seq]
    orders,     \* orders_collection, in insertion order
    last,       \* the call handled last (in SpecBot the cart button handled
                \* last): its arguments, what it found (`had`: the line of
                \* its product, `size`: the length of the cart) and what it
                \* returned
    prev        \* the call handled before `last`, as far as it was about
                \* the same user: `appended` when it was an add_to_cart that
                \* appended the line of the product of `last`, `cleared` the
                \* number of lines it removed when it was a clear_cart

VARIABLES
    tasks,      \* SpecConc: the call each task is in and where it stands
    issued,     \* the numbers get_next_order_number has returned, in the
                \* order of the returns, each with the largest number that
                \* had been returned when its call started (`floor`)
    ofloor      \* for each stored order, the largest order_number that was
                \* stored when its create_order call started

VARIABLES
    products,   \* products_collection: id -> [name, price, category_id]
    conv,       \* checkout_conv: the conversation state of each user
    user_data,  \* context.user_data of each user
    path,       \* SpecBot: for each user in a state of checkout_conv, the
                \* updates checkout_conv has handled since the user entered
                \* the checkout, each with the state it led to
    entered     \* for each user in a state of checkout_conv, what the
                \* updates of this checkout have brought: the stored cart
                \* when the checkout button was handled, the delivery
                \* button, the texts typed; and whether a checkout of
                \* the user has been cancelled

VARIABLES
    admin_conv, \* admin_conv: the conversation state of each user
    admin_data, \* the keys of context.user_data the admin handlers set
    admins,     \* admins_collection: the records, in insertion order
    receivers,  \* notification_receivers_collection: the records, in
                \* insertion order
    categories  \* categories_collection: id -> [parent_id]

dbVars == <<users, counters, orders>>
callVars == <<last, prev>>
concVars == <<tasks, issued, ofloor>>
adminVars == <<admin_conv, admin_data, admins, receivers, categories>>
botVars == <<products, conv, user_data, path, entered, adminVars>>
vars == <<users, counters, orders, last, prev, tasks, issued, ofloor,
          products, conv, user_data, path, entered,
          admin_conv, admin_data, admins, receivers, categories>>

\* ------------------------------------------------------- database.py: cart

\* Position of the first line of `cart` for product `pid`, 0 if there is none:
\* the line the `for item in cart` loops stop at.
FirstLine(cart, pid) ==
    IF \E i \in 1..Len(cart) : cart[i].product_id = pid
    THEN CHOOSE i \in 1..Len(cart) :
            /\ cart[i].product_id = pid
            /\ \A j \in 1..(i - 1) : cart[j].product_id # pid
    ELSE 0

RemoveAt(s, i) == SubSeq(s, 1, i - 1) \o SubSeq(s, i + 1, Len(s))

\* A variant of the code below that gives a stored user an empty cart.
get_or_create_user_reset(us, tid) ==
    [t \in DOMAIN us \cup {tid} |->
        IF t = tid
        THEN [cart |-> <<>>,
              phone |-> IF tid \in DOMAIN us THEN us[tid].phone ELSE None]
        ELSE us[t]]

\* get_or_create_user: the stored record, or a new one with an empty cart.
get_or_create_user(us, tid) ==
    IF tid \in DOMAIN us
    THEN us
    ELSE [t \in DOMAIN us \cup {tid} |->
            IF t = tid THEN [cart |-> <<>>, phone |-> None] ELSE us[t]]

\* get_user_cart: user.get("cart", []) or [] for an unknown user.
get_user_cart(us, tid) ==
    IF tid \in DOMAIN us THEN us[tid].cart ELSE <<>>

\* Variants of the code below with one plausible slip each; the properties at
\* the end of the module tell them from the code.
AddedCart_refresh(cart, pid, pname, quantity, price) ==
    LET i == FirstLine(cart, pid) IN
    IF i # 0
    THEN [cart EXCEPT ![i] = [product_id |-> pid, product_name |-> pname,
                              quantity |-> @.quantity + quantity,
                              price |-> price]]
    ELSE Append(cart, [product_id |-> pid, product_name |-> pname,
                       quantity |-> quantity, price |-> price])

AddedCart_append(cart, pid, pname, quantity, price) ==
    Append(cart, [product_id |-> pid, product_name |-> pname,
                  quantity |-> quantity, price |-> price])

\* The list add_to_cart writes back: the first line of the product gets
\* quantity += quantity, otherwise a new line is appended.
AddedCart(cart, pid, pname, quantity, price) ==
    LET i == FirstLine(cart, pid) IN
    IF i # 0
    THEN [cart EXCEPT ![i].quantity = @ + quantity]
    ELSE Append(cart, [product_id |-> pid, product_name |-> pname,
                       quantity |-> quantity, price |-> price])

\* An add_to_cart that writes with upsert: it creates the user it does
\* not find.
add_to_cart_upsert(us, tid, pid, pname, quantity, price) ==
    LET created == [t \in DOMAIN us \cup {tid} |->
                       IF t \in DOMAIN us THEN us[t]
                       ELSE [cart |-> <<>>, phone |-> None]]
    IN [created EXCEPT ![tid].cart = AddedCart(@, pid, pname, quantity, price)]

add_to_cart(us, tid, pid, pname, quantity, price) ==
    IF tid \in DOMAIN us
    THEN [us EXCEPT ![tid].cart = AddedCart(@, pid, pname, quantity, price)]
    ELSE us

UpdatedCart_zero(cart, pid, quantity) ==
    LET i == FirstLine(cart, pid) IN
    IF i = 0 THEN cart
    ELSE [cart EXCEPT ![i].quantity = quantity]

UpdatedCart_upsert(cart, pid, quantity) ==
    LET i == FirstLine(cart, pid) IN
    IF i = 0
    THEN IF quantity <= 0 THEN cart
         ELSE Append(cart, [product_id |-> pid, product_name |-> None,
                            quantity |-> quantity, price |-> 0])
    ELSE IF quantity <= 0 THEN RemoveAt(cart, i)
    ELSE [cart EXCEPT ![i].quantity = quantity]

\* The list update_cart_item_quantity writes back.
UpdatedCart(cart, pid, quantity) ==
    LET i == FirstLine(cart, pid) IN
    IF i = 0 THEN cart
    ELSE IF quantity <= 0 THEN RemoveAt(cart, i)
    ELSE [cart EXCEPT ![i].quantity = quantity]

update_cart_item_quantity(us, tid, pid, quantity) ==
    IF tid \in DOMAIN us
    THEN [us EXCEPT ![tid].cart = UpdatedCart(@, pid, quantity)]
    ELSE us

clear_cart_first(us, tid) ==
    IF tid \in DOMAIN us /\ us[tid].cart # <<>>
    THEN [us EXCEPT ![tid].cart = Tail(@)]
    ELSE us

\* A clear_cart whose filter matches every user document.
clear_cart_all(us, tid) ==
    [t \in DOMAIN us |-> [us[t] EXCEPT !.cart = <<>>]]

\* clear_cart: update_one without upsert, nothing happens for an unknown user.
clear_cart(us, tid) ==
    IF tid \in DOMAIN us THEN [us EXCEPT ![tid].cart = <<>>] ELSE us

\* ----------------------------------------------------- database.py: orders

Max(S) == CHOOSE x \in S : \A y \in S : y <= x

get_next_order_number_set(cs) ==
    [n \in DOMAIN cs \cup {"order_number"} |->
        IF n = "order_number" THEN 1 ELSE cs[n]]

\* counters_collection after find_one_and_update({"_id": "order_number"},
\* {"$inc": {"seq": 1}}, upsert=True): one atomic step of the store; a counter
\* that is not there is created by the $inc, at 1.
get_next_order_number(cs) ==
    [n \in DOMAIN cs \cup {"order_number"} |->
        IF n = "order_number"
        THEN (IF n \in DOMAIN cs THEN cs[n] + 1 ELSE 1)
        ELSE cs[n]]

ReturnedSeq_before(cs) == cs["order_number"] - 1

\* return_document=True: result["seq"] is read from the document after the
\* update.
ReturnedSeq(cs) == cs["order_number"]

\* total as the callers compute it (bot.py confirm_order_callback,
\* backend_test.py): the sum of price * quantity over the items.
RECURSIVE Total(_)
Total(items) ==
    IF items = <<>> THEN 0
    ELSE Head(items).price * Head(items).quantity + Total(Tail(items))

\* The arguments of a create_order call.
OrderArgs(tid, name, phone, items, dtype, dcost, address, comment) ==
    [user_telegram_id |-> tid, user_name |-> name, phone |-> phone,
     items |-> items, total |-> Total(items), delivery_type |-> dtype,
     delivery_cost |-> dcost, address |-> address, comment |-> comment]

\* Order(order_number=..., **args): status starts at "new" (models.py). The
\* random id and the creation time are left out.
Order(number, args) ==
    [order_number |-> number, user_telegram_id |-> args.user_telegram_id,
     user_name |-> args.user_name, phone |-> args.phone, items |-> args.items,
     total |-> args.total, delivery_cost |-> args.delivery_cost,
     delivery_type |-> args.delivery_type, address |-> args.address,
     comment |-> args.comment, status |-> "new"]

\* The largest order_number stored, 0 without orders.
MaxStored(os) == Max({0} \cup {os[i].order_number : i \in 1..Len(os)})

\* The largest number returned so far, 0 before the first return.
MaxIssued(is) == Max({0} \cup {is[i].value : i \in 1..Len(is)})

\* ------------------------------------------------------- bot.py: the states

WAITING_DELIVERY_TYPE == 0
WAITING_ADDRESS == 1
WAITING_NAME == 2
WAITING_PHONE == 3
WAITING_COMMENT == 4
CONFIRM_ORDER == 5
\* ConversationHandler.END: the user is in no conversation.
END == -1

ADMIN_ADD_ADMIN == 7
ADMIN_ADD_RECEIVER == 9
ADMIN_ADD_PRODUCT_NAME == 16
ADMIN_ADD_PRODUCT_DESC == 17
ADMIN_ADD_PRODUCT_PRICE == 18
ADMIN_ADD_PRODUCT_IMAGE == 19
ADMIN_EDIT_PRODUCT_VALUE == 22
ADMIN_BROADCAST_MESSAGE == 24
ADMIN_ADD_SUBCATEGORY_NAME == 26

DELIVERY_COST == 400
PICKUP_ADDRESS == "pickup address"

\* The products init_test_data stores, two of them.
InitialProducts ==
    [pid \in ProductIds |->
        IF pid = "a"
        THEN [name |-> "n1", price |-> 2490, category_id |-> "c2"]
        ELSE [name |-> "n2", price |-> 150, category_id |-> "c3"]]

\* The categories init_test_data creates, reduced to one main category
\* with a subcategory that holds a product, and one main category that
\* holds a product itself.
InitialCategories ==
    [c \in {"c1", "c2", "c3"} |->
        [parent_id |-> IF c = "c2" THEN "c1" ELSE None]]

\* context.user_data before the first update of a user: an empty dict. A key
\* that is not set reads as None (as 0 for delivery_cost, [] for
\* checkout_cart, 1 for a quantity), which is what every .get() of the
\* handlers makes of it.
NoUserData ==
    [quantities |-> [pid \in ProductIds |-> 1], checkout_cart |-> <<>>,
     delivery_type |-> None, delivery_cost |-> 0, address |-> None,
     customer_name |-> None, phone |-> None, comment |-> None]

\* Nothing entered: the user is in no checkout and has cancelled none.
NoEntered ==
    [cart |-> <<>>, delivery |-> None, address |-> None, name |-> None,
     phone |-> None, comment |-> None, cancelled |-> FALSE]

\* What stands for a new_product_price that is not set.
NoPrice == -1

\* The admin keys of context.user_data before the first update of a user.
NoAdminData ==
    [new_product_category |-> None, new_product_name |-> None,
     new_product_desc |-> None, new_product_price |-> NoPrice,
     edit_product_id |-> None, edit_product_field |-> None,
     subcat_parent_id |-> None]

\* The administrator and the notification receiver init_test_data stores.
FirstAdmin == 1

\* An Admin or NotificationReceiver record.
Role(tid, by) == [telegram_id |-> tid, added_by |-> by]

\* find_one({"telegram_id": tid}): the position of the first record of the
\* id, 0 if there is none.
FirstRole(rs, tid) ==
    IF \E i \in 1..Len(rs) : rs[i].telegram_id = tid
    THEN CHOOSE i \in 1..Len(rs) :
            /\ rs[i].telegram_id = tid
            /\ \A j \in 1..(i - 1) : rs[j].telegram_id # tid
    ELSE 0

\* is_admin
is_admin(as, tid) == FirstRole(as, tid) # 0

\* A variant of the code below that inserts without looking.
add_admin_blind(as, tid, by) == Append(as, Role(tid, by))

\* add_admin: nothing is stored for an id that is stored already.
add_admin(as, tid, by) ==
    IF FirstRole(as, tid) # 0 THEN as ELSE Append(as, Role(tid, by))

\* What add_admin returns, as a list: empty for None, returned for an id
\* that is stored already, the new record otherwise.
add_admin_result(as, tid, by) ==
    IF FirstRole(as, tid) # 0 THEN <<>> ELSE <<Role(tid, by)>>

\* remove_admin: delete_one removes the first record of the id.
remove_admin(as, tid) ==
    IF FirstRole(as, tid) # 0 THEN RemoveAt(as, FirstRole(as, tid)) ELSE as

\* add_notification_receiver, and what it returns
add_notification_receiver(rs, tid, by) ==
    IF FirstRole(rs, tid) # 0 THEN rs ELSE Append(rs, Role(tid, by))

add_notification_receiver_result(rs, tid, by) ==
    IF FirstRole(rs, tid) # 0 THEN <<>> ELSE <<Role(tid, by)>>

\* remove_notification_receiver
remove_notification_receiver(rs, tid) ==
    IF FirstRole(rs, tid) # 0 THEN RemoveAt(rs, FirstRole(rs, tid)) ELSE rs

\* The bot is not part of SpecDb, SpecSeq and SpecConc.
NoBot ==
    /\ admin_conv = [u \in UserIds |-> END]
    /\ admin_data = [u \in UserIds |-> NoAdminData]
    /\ admins = <<Role(FirstAdmin, FirstAdmin)>>
    /\ receivers = <<Role(FirstAdmin, FirstAdmin)>>
    /\ categories = InitialCategories
    /\ products = InitialProducts
    /\ conv = [u \in UserIds |-> END]
    /\ user_data = [u \in UserIds |-> NoUserData]
    /\ path = [u \in UserIds |-> <<>>]
    /\ entered = [u \in UserIds |-> NoEntered]

\* ----------------------------------------------------------------- SpecDb
\* The cart operations called one after the other, each call run to its end
\* before the next one starts (backend_test.py: test_cart_operations).

\* The first line of product `pid` in the cart of `tid`: a set of at most one.
LineOf(us, tid, pid) ==
    LET cart == get_user_cart(us, tid) IN
    IF FirstLine(cart, pid) = 0 THEN {} ELSE {cart[FirstLine(cart, pid)]}

\* The lines of `cart` that are not of product `pid`, in order.
OtherLines(cart, pid) == SelectSeq(cart, LAMBDA l : l.product_id # pid)

NoSnap == [product_name |-> None, price |-> 0]

NoCall == [op |-> "none", tid |-> 0, pid |-> None, quantity |-> 0,
           snap |-> NoSnap, known |-> FALSE, had |-> {}, size |-> 0,
           result |-> <<>>]

\* The record of a call: its arguments, whether the user was stored, the line
\* of the product and the length of the cart it found, the cart it returned.
Call(op, tid, pid, quantity, snap, result) ==
    [op |-> op, tid |-> tid, pid |-> pid, quantity |-> quantity,
     snap |-> snap, known |-> tid \in DOMAIN users,
     had |-> LineOf(users, tid, pid),
     size |-> Len(get_user_cart(users, tid)), result |-> result]

\* TRUE when `call` was an add_to_cart that appended a line.
Appended(call) ==
    call.op = "add_to_cart" /\ call.known /\ call.had = {}

\* What `prev` keeps of `last` when a call about user `tid` and product `pid`
\* starts.
Kept(tid, pid) ==
    [appended |-> Appended(last) /\ tid = last.tid /\ pid = last.pid,
     cleared |-> IF last.op = "clear_cart" /\ tid = last.tid
                 THEN last.size ELSE 0]

InitDb ==
    /\ users = <<>>
    /\ counters = <<>>
    /\ orders = <<>>
    /\ last = NoCall
    /\ prev = [appended |-> FALSE, cleared |-> 0]
    /\ tasks = <<>>
    /\ issued = <<>>
    /\ ofloor = <<>>
    /\ NoBot

GetOrCreateUser(tid) ==
    /\ users' = get_or_create_user(users, tid)
    /\ prev' = Kept(tid, None)
    /\ last' = Call("get_or_create_user", tid, None, 0, NoSnap, users'[tid].cart)
    /\ UNCHANGED <<counters, orders, concVars, botVars>>

GetUserCart(tid) ==
    /\ prev' = Kept(tid, None)
    /\ last' = Call("get_user_cart", tid, None, 0, NoSnap, get_user_cart(users, tid))
    /\ UNCHANGED <<users, counters, orders, concVars, botVars>>

AddToCart(tid, pid, snap, quantity) ==
    /\ users' = add_to_cart(users, tid, pid, snap.product_name, quantity, snap.price)
    /\ \A i \in 1..Len(get_user_cart(users', tid)) :
          get_user_cart(users', tid)[i].quantity <= MaxQty
    /\ prev' = Kept(tid, pid)
    /\ last' = Call("add_to_cart", tid, pid, quantity, snap, <<>>)
    /\ UNCHANGED <<counters, orders, concVars, botVars>>

UpdateCartItemQuantity(tid, pid, quantity) ==
    /\ users' = update_cart_item_quantity(users, tid, pid, quantity)
    /\ prev' = Kept(tid, pid)
    /\ last' = Call("update_cart_item_quantity", tid, pid, quantity, NoSnap, <<>>)
    /\ UNCHANGED <<counters, orders, concVars, botVars>>

ClearCart(tid) ==
    /\ users' = clear_cart(users, tid)
    /\ prev' = Kept(tid, None)
    /\ last' = Call("clear_cart", tid, None, 0, NoSnap, <<>>)
    /\ UNCHANGED <<counters, orders, concVars, botVars>>

NextDb ==
    \/ \E tid \in UserIds : GetOrCreateUser(tid)
    \/ \E tid \in UserIds : GetUserCart(tid)
    \/ \E tid \in UserIds, pid \in ProductIds, snap \in Snapshots, q \in 1..MaxQty :
          AddToCart(tid, pid, snap, q)
    \/ \E tid \in UserIds, pid \in ProductIds, q \in (-1)..MaxQty :
          UpdateCartItemQuantity(tid, pid, q)
    \/ \E tid \in UserIds : ClearCart(tid)

SpecDb == InitDb /\ [][NextDb]_vars

\* ---------------------------------------------------------------- SpecSeq
\* get_next_order_number and create_order called one after the other, each
\* call run to its end, from a store without counter (backend_test.py:
\* test_order_number_counter, test_order_operations).

SampleItems ==
    {<<[product_id |-> "a", product_name |-> "n1", quantity |-> 2, price |-> 2490]>>,
     <<[product_id |-> "a", product_name |-> "n1", quantity |-> 1, price |-> 2490],
       [product_id |-> "b", product_name |-> "n2", quantity |-> 1, price |-> 150]>>}

SampleArgs ==
    {OrderArgs(tid, "name", "phone", items, "pickup", 0, PICKUP_ADDRESS, None) :
        tid \in UserIds, items \in SampleItems}
    \cup
    {OrderArgs(tid, "name", "phone", items, "delivery", DELIVERY_COST, "street", "note") :
        tid \in UserIds, items \in SampleItems}

SeqCall(op, number) ==
    [op |-> op, tid |-> 0, pid |-> None, quantity |-> number,
     snap |-> NoSnap, known |-> FALSE, had |-> {}, size |-> 0,
     result |-> <<>>]

InitSeq ==
    /\ users = <<>>
    /\ counters = <<>>
    /\ orders = <<>>
    /\ last = NoCall
    /\ prev = [appended |-> FALSE, cleared |-> 0]
    /\ tasks = <<>>
    /\ issued = <<>>
    /\ ofloor = <<>>
    /\ NoBot

\* await get_next_order_number()
GetNextOrderNumber ==
    /\ Len(issued) < MaxCalls
    /\ counters' = get_next_order_number(counters)
    /\ issued' = Append(issued, [value |-> ReturnedSeq(counters'),
                                 floor |-> MaxIssued(issued)])
    /\ last' = SeqCall("get_next_order_number", ReturnedSeq(counters'))
    /\ UNCHANGED <<users, orders, prev, tasks, ofloor, botVars>>

\* await create_order(**args)
CreateOrder(args) ==
    /\ Len(issued) < MaxCalls
    /\ counters' = get_next_order_number(counters)
    /\ issued' = Append(issued, [value |-> ReturnedSeq(counters'),
                                 floor |-> MaxIssued(issued)])
    /\ orders' = Append(orders, Order(ReturnedSeq(counters'), args))
    /\ ofloor' = Append(ofloor, MaxStored(orders))
    /\ last' = SeqCall("create_order", ReturnedSeq(counters'))
    /\ UNCHANGED <<users, prev, tasks, botVars>>

NextSeq ==
    \/ GetNextOrderNumber
    \/ \E args \in SampleArgs : CreateOrder(args)

SpecSeq == InitSeq /\ [][NextSeq]_vars

\* --------------------------------------------------------------- SpecConc
\* get_next_order_number and create_order called from independent tasks. A
\* task gives way at every await: between the start of a call and the step
\* of the store, between that step and the resumption of the caller, and in
\* create_order again between the resumption and insert_one.

TaskIds == {1, 2, 3}

\* One pickup order of user 1 and one delivery order of user 2.
ConcArgs ==
    {a \in SampleArgs :
        /\ Len(a.items) = 1
        /\ a.user_telegram_id = 1 <=> a.delivery_type = "pickup"}

NoArgs == CHOOSE a \in ConcArgs : TRUE

Started == Len(issued) + Cardinality({t \in DOMAIN tasks : tasks[t].pc \in {"inc", "got"}})

IdleTask == [pc |-> "idle", op |-> "none", number |-> 0, floor |-> 0,
             ofloor |-> 0, args |-> NoArgs]

InitConc ==
    /\ users = <<>>
    /\ counters = <<>>
    /\ orders = <<>>
    /\ last = NoCall
    /\ prev = [appended |-> FALSE, cleared |-> 0]
    /\ tasks = [t \in TaskIds |-> IdleTask]
    /\ issued = <<>>
    /\ ofloor = <<>>
    /\ NoBot

\* A task calls get_next_order_number.
CallGetNext(t) ==
    /\ tasks[t].pc = "idle"
    /\ Started < MaxCalls
    /\ tasks' = [tasks EXCEPT ![t].pc = "inc", ![t].op = "get_next_order_number",
                              ![t].floor = MaxIssued(issued)]
    /\ UNCHANGED <<dbVars, callVars, issued, ofloor, botVars>>

\* A task calls create_order, which calls get_next_order_number first.
CallCreateOrder(t, args) ==
    /\ tasks[t].pc = "idle"
    /\ Started < MaxCalls
    /\ tasks' = [tasks EXCEPT ![t].pc = "inc", ![t].op = "create_order",
                              ![t].floor = MaxIssued(issued),
                              ![t].ofloor = MaxStored(orders),
                              ![t].args = args]
    /\ UNCHANGED <<dbVars, callVars, issued, ofloor, botVars>>

\* The store runs the find_one_and_update of the task.
StoreIncrements(t) ==
    /\ tasks[t].pc = "inc"
    /\ counters' = get_next_order_number(counters)
    /\ tasks' = [tasks EXCEPT ![t].pc = "got", ![t].number = ReturnedSeq(counters')]
    /\ UNCHANGED <<users, orders, callVars, issued, ofloor, botVars>>

\* get_next_order_number returns to a task that called it directly.
ReturnNumber(t) ==
    /\ tasks[t].pc = "got"
    /\ tasks[t].op = "get_next_order_number"
    /\ issued' = Append(issued, [value |-> tasks[t].number, floor |-> tasks[t].floor])
    /\ tasks' = [tasks EXCEPT ![t] = IdleTask]
    /\ UNCHANGED <<dbVars, callVars, ofloor, botVars>>

\* get_next_order_number returns into create_order, which builds the Order
\* and awaits insert_one.
ResumeCreateOrder(t) ==
    /\ tasks[t].pc = "got"
    /\ tasks[t].op = "create_order"
    /\ issued' = Append(issued, [value |-> tasks[t].number, floor |-> tasks[t].floor])
    /\ tasks' = [tasks EXCEPT ![t].pc = "insert"]
    /\ UNCHANGED <<dbVars, callVars, ofloor, botVars>>

\* The store runs the insert_one of the task and create_order returns.
StoreInserts(t) ==
    /\ tasks[t].pc = "insert"
    /\ orders' = Append(orders, Order(tasks[t].number, tasks[t].args))
    /\ ofloor' = Append(ofloor, tasks[t].ofloor)
    /\ tasks' = [tasks EXCEPT ![t] = IdleTask]
    /\ UNCHANGED <<users, counters, callVars, issued, botVars>>

NextConc ==
    \/ \E t \in TaskIds : CallGetNext(t)
    \/ \E t \in TaskIds, args \in ConcArgs : CallCreateOrder(t, args)
    \/ \E t \in TaskIds : StoreIncrements(t)
    \/ \E t \in TaskIds : ReturnNumber(t)
    \/ \E t \in TaskIds : ResumeCreateOrder(t)
    \/ \E t \in TaskIds : StoreInserts(t)

SpecConc == InitConc /\ [][NextConc]_vars

\* ---------------------------------------------------------------- SpecBot
\* The customer side of bot.py. main() builds the Application without
\* concurrent_updates, so the updates are handled one at a time, each handler
\* run to its end: one action per update. An update goes to the first handler
\* registered in main() that accepts it: the start command, then
\* checkout_conv (the handlers of the state the user is in, then its
\* fallback /cancel; its entry point when the user is in no state), then the
\* handlers of the product and cart buttons.

\* The customers that talk to the bot in SpecBot, the products whose buttons
\* they press, and what they type.
BotUsers == {1}
BotProducts == {"a"}
Addresses == {"street"}
Names == {"name"}
Phones == {"phone"}
Comments == {"note"}

\* update_user_phone: update_one without upsert.
update_user_phone(us, tid, phone) ==
    IF tid \in DOMAIN us THEN [us EXCEPT ![tid].phone = phone] ELSE us

\* An order stored before the bot was started: the store outlives the
\* process, the conversations and context.user_data do not.
EarlierOrder ==
    Order(1, OrderArgs(2, "name", "phone",
                       <<[product_id |-> "a", product_name |-> "n1",
                          quantity |-> 1, price |-> 2490]>>,
                       "pickup", 0, PICKUP_ADDRESS, None))

\* The number of orders the customers of SpecBot have placed.
Placed == Cardinality({i \in 1..Len(orders) : orders[i].user_telegram_id \in BotUsers})

InitBot ==
    /\ users = <<>>
    /\ counters = <<>>
    /\ orders = <<>>
    /\ last = NoCall
    /\ prev = [appended |-> FALSE, cleared |-> 0]
    /\ tasks = <<>>
    /\ issued = <<>>
    /\ ofloor = <<>>
    /\ NoBot

\* What a handler of checkout_conv leaves in `path`.
Step(u, ev, to) == [path EXCEPT ![u] = Append(@, [ev |-> ev, to |-> to])]

\* `last` is the cart button handled last: the button, the user, the product,
\* and the line and the length of the cart the handler found.
Pressed(button, u, pid) == Call(button, u, pid, 0, NoSnap, <<>>)

Untouched == <<counters, orders, prev, concVars, products, adminVars>>

\* /start: start()
Start(u) ==
    /\ users' = get_or_create_user(users, u)
    /\ UNCHANGED <<last, Untouched, conv, user_data, path, entered>>

\* qty_minus_<id>: product_callback
QtyMinus(u, pid) ==
    /\ user_data' = [user_data EXCEPT ![u].quantities[pid] =
                        IF @ > 1 THEN @ - 1 ELSE @]
    /\ UNCHANGED <<last, users, Untouched, conv, path, entered>>

\* qty_plus_<id>: product_callback
QtyPlus(u, pid) ==
    /\ user_data[u].quantities[pid] < MaxQty
    /\ user_data' = [user_data EXCEPT ![u].quantities[pid] = @ + 1]
    /\ UNCHANGED <<last, users, Untouched, conv, path, entered>>

\* add_cart_<id>: product_callback
AddCart(u, pid) ==
    /\ IF pid \in DOMAIN products
       THEN /\ users' = add_to_cart(users, u, pid, products[pid].name,
                                    user_data[u].quantities[pid],
                                    products[pid].price)
            /\ user_data' = [user_data EXCEPT ![u].quantities[pid] = 1]
       ELSE UNCHANGED <<users, user_data>>
    /\ \A i \in 1..Len(get_user_cart(users', u)) :
          get_user_cart(users', u)[i].quantity <= MaxQty
    /\ last' = Pressed("add_cart", u, pid)
    /\ UNCHANGED <<Untouched, conv, path, entered>>

\* cart_minus_<id>: cart_callback
CartMinus(u, pid) ==
    /\ users' = IF LineOf(users, u, pid) = {} THEN users
                ELSE LET item == CHOOSE l \in LineOf(users, u, pid) : TRUE
                     IN update_cart_item_quantity(users, u, pid, item.quantity - 1)
    /\ last' = Pressed("cart_minus", u, pid)
    /\ UNCHANGED <<Untouched, conv, user_data, path, entered>>

\* cart_plus_<id>: cart_callback
CartPlus(u, pid) ==
    /\ \A l \in LineOf(users, u, pid) : l.quantity < MaxQty
    /\ users' = IF LineOf(users, u, pid) = {} THEN users
                ELSE LET item == CHOOSE l \in LineOf(users, u, pid) : TRUE
                     IN update_cart_item_quantity(users, u, pid, item.quantity + 1)
    /\ last' = Pressed("cart_plus", u, pid)
    /\ UNCHANGED <<Untouched, conv, user_data, path, entered>>

\* cart_remove_<id>: cart_callback
CartRemove(u, pid) ==
    /\ users' = update_cart_item_quantity(users, u, pid, 0)
    /\ last' = Pressed("cart_remove", u, pid)
    /\ UNCHANGED <<Untouched, conv, user_data, path, entered>>

\* cart_clear: cart_callback
CartClear(u) ==
    /\ users' = clear_cart(users, u)
    /\ last' = Pressed("cart_clear", u, None)
    /\ UNCHANGED <<Untouched, conv, user_data, path, entered>>

\* checkout: the entry point of checkout_conv, cart_callback. Accepted only
\* from a user who is in no state of checkout_conv; no other handler takes
\* the button, so the press of a user who is in a state changes nothing.
\* A checkout button that starts the flow on an empty cart as well.
Checkout_empty(u) ==
    /\ IF conv[u] = END
       THEN /\ user_data' = [user_data EXCEPT
                                ![u].checkout_cart = get_user_cart(users, u)]
            /\ conv' = [conv EXCEPT ![u] = WAITING_DELIVERY_TYPE]
            /\ path' = [path EXCEPT ![u] =
                          <<[ev |-> "checkout", to |-> WAITING_DELIVERY_TYPE]>>]
            /\ entered' = [entered EXCEPT ![u] =
                             [NoEntered EXCEPT !.cart = get_user_cart(users, u),
                                               !.cancelled = entered[u].cancelled]]
       ELSE UNCHANGED <<conv, user_data, path, entered>>
    /\ UNCHANGED <<last, users, Untouched>>

Checkout(u) ==
    /\ IF conv[u] = END /\ get_user_cart(users, u) # <<>>
       THEN /\ user_data' = [user_data EXCEPT
                                ![u].checkout_cart = get_user_cart(users, u)]
            /\ conv' = [conv EXCEPT ![u] = WAITING_DELIVERY_TYPE]
            /\ path' = [path EXCEPT ![u] =
                          <<[ev |-> "checkout", to |-> WAITING_DELIVERY_TYPE]>>]
            /\ entered' = [entered EXCEPT ![u] =
                             [NoEntered EXCEPT !.cart = get_user_cart(users, u),
                                               !.cancelled = entered[u].cancelled]]
       ELSE UNCHANGED <<conv, user_data, path, entered>>
    /\ UNCHANGED <<last, users, Untouched>>

\* checkout_cancel: delivery_type_callback
CheckoutCancel(u) ==
    /\ conv[u] = WAITING_DELIVERY_TYPE
    /\ conv' = [conv EXCEPT ![u] = END]
    /\ path' = [path EXCEPT ![u] = <<>>]
    /\ entered' = [entered EXCEPT ![u] =
                     [NoEntered EXCEPT !.cancelled = TRUE]]
    /\ UNCHANGED <<last, users, Untouched, user_data>>

\* A variant of the handler below that leaves delivery_cost as it is.
DeliveryPickup_stale(u) ==
    /\ conv[u] = WAITING_DELIVERY_TYPE
    /\ user_data' = [user_data EXCEPT ![u].delivery_type = "pickup",
                                      ![u].address = PICKUP_ADDRESS]
    /\ conv' = [conv EXCEPT ![u] = WAITING_NAME]
    /\ path' = Step(u, "delivery_pickup", WAITING_NAME)
    /\ entered' = [entered EXCEPT ![u].delivery = "pickup"]
    /\ UNCHANGED <<last, users, Untouched>>

\* delivery_pickup: delivery_type_callback
DeliveryPickup(u) ==
    /\ conv[u] = WAITING_DELIVERY_TYPE
    /\ user_data' = [user_data EXCEPT ![u].delivery_type = "pickup",
                                      ![u].delivery_cost = 0,
                                      ![u].address = PICKUP_ADDRESS]
    /\ conv' = [conv EXCEPT ![u] = WAITING_NAME]
    /\ path' = Step(u, "delivery_pickup", WAITING_NAME)
    /\ entered' = [entered EXCEPT ![u].delivery = "pickup"]
    /\ UNCHANGED <<last, users, Untouched>>

\* A variant of the handler below that takes the pickup address for a
\* delivery and goes on to the name.
DeliveryDelivery_noaddr(u) ==
    /\ conv[u] = WAITING_DELIVERY_TYPE
    /\ user_data' = [user_data EXCEPT ![u].delivery_type = "delivery",
                                      ![u].delivery_cost = DELIVERY_COST,
                                      ![u].address = PICKUP_ADDRESS]
    /\ conv' = [conv EXCEPT ![u] = WAITING_NAME]
    /\ path' = Step(u, "delivery_delivery", WAITING_NAME)
    /\ entered' = [entered EXCEPT ![u].delivery = "delivery"]
    /\ UNCHANGED <<last, users, Untouched>>

\* delivery_delivery: delivery_type_callback
DeliveryDelivery(u) ==
    /\ conv[u] = WAITING_DELIVERY_TYPE
    /\ user_data' = [user_data EXCEPT ![u].delivery_type = "delivery",
                                      ![u].delivery_cost = DELIVERY_COST]
    /\ conv' = [conv EXCEPT ![u] = WAITING_ADDRESS]
    /\ path' = Step(u, "delivery_delivery", WAITING_ADDRESS)
    /\ entered' = [entered EXCEPT ![u].delivery = "delivery"]
    /\ UNCHANGED <<last, users, Untouched>>

\* a text in WAITING_ADDRESS: receive_address
ReceiveAddress(u, text) ==
    /\ conv[u] = WAITING_ADDRESS
    /\ user_data' = [user_data EXCEPT ![u].address = text]
    /\ conv' = [conv EXCEPT ![u] = WAITING_NAME]
    /\ path' = Step(u, "address", WAITING_NAME)
    /\ entered' = [entered EXCEPT ![u].address = text]
    /\ UNCHANGED <<last, users, Untouched>>

\* A variant of the handler below that keeps a name the context already
\* holds.
ReceiveName_keep(u, text) ==
    /\ conv[u] = WAITING_NAME
    /\ user_data' = [user_data EXCEPT
                        ![u].customer_name =
                            IF @ = None THEN text ELSE @]
    /\ conv' = [conv EXCEPT ![u] = WAITING_PHONE]
    /\ path' = Step(u, "name", WAITING_PHONE)
    /\ entered' = [entered EXCEPT ![u].name = text]
    /\ UNCHANGED <<last, users, Untouched>>

\* a text in WAITING_NAME: receive_name
ReceiveName(u, text) ==
    /\ conv[u] = WAITING_NAME
    /\ user_data' = [user_data EXCEPT ![u].customer_name = text]
    /\ conv' = [conv EXCEPT ![u] = WAITING_PHONE]
    /\ path' = Step(u, "name", WAITING_PHONE)
    /\ entered' = [entered EXCEPT ![u].name = text]
    /\ UNCHANGED <<last, users, Untouched>>

\* a contact or a text in WAITING_PHONE: receive_phone
ReceivePhone(u, phone) ==
    /\ conv[u] = WAITING_PHONE
    /\ user_data' = [user_data EXCEPT ![u].phone = phone]
    /\ users' = update_user_phone(users, u, phone)
    /\ conv' = [conv EXCEPT ![u] = WAITING_COMMENT]
    /\ path' = Step(u, "phone", WAITING_COMMENT)
    /\ entered' = [entered EXCEPT ![u].phone = phone]
    /\ UNCHANGED <<last, Untouched>>

\* a text in WAITING_COMMENT: receive_comment, show_order_confirmation
ReceiveComment(u, text) ==
    /\ conv[u] = WAITING_COMMENT
    /\ user_data' = [user_data EXCEPT ![u].comment = text]
    /\ conv' = [conv EXCEPT ![u] = CONFIRM_ORDER]
    /\ path' = Step(u, "comment", CONFIRM_ORDER)
    /\ entered' = [entered EXCEPT ![u].comment = text]
    /\ UNCHANGED <<last, users, Untouched>>

\* skip_comment: skip_comment_callback, show_order_confirmation_query
SkipComment(u) ==
    /\ conv[u] = WAITING_COMMENT
    /\ user_data' = [user_data EXCEPT ![u].comment = None]
    /\ conv' = [conv EXCEPT ![u] = CONFIRM_ORDER]
    /\ path' = Step(u, "skip_comment", CONFIRM_ORDER)
    /\ entered' = [entered EXCEPT ![u].comment = None]
    /\ UNCHANGED <<last, users, Untouched>>

\* A variant of the handler below that empties the stored cart.
CancelOrder_clear(u) ==
    /\ conv[u] = CONFIRM_ORDER
    /\ conv' = [conv EXCEPT ![u] = END]
    /\ path' = [path EXCEPT ![u] = <<>>]
    /\ entered' = [entered EXCEPT ![u] =
                     [NoEntered EXCEPT !.cancelled = TRUE]]
    /\ users' = clear_cart(users, u)
    /\ UNCHANGED <<last, Untouched, user_data>>

\* cancel_order: confirm_order_callback
CancelOrder(u) ==
    /\ conv[u] = CONFIRM_ORDER
    /\ conv' = [conv EXCEPT ![u] = END]
    /\ path' = [path EXCEPT ![u] = <<>>]
    /\ entered' = [entered EXCEPT ![u] =
                     [NoEntered EXCEPT !.cancelled = TRUE]]
    /\ UNCHANGED <<last, users, Untouched, user_data>>

\* A variant of the handler below that orders the stored cart instead of
\* context.user_data["checkout_cart"].
ConfirmOrder_live(u) ==
    /\ conv[u] = CONFIRM_ORDER
    /\ Placed < MaxOrders
    /\ LET d == user_data[u]
           args == OrderArgs(u, d.customer_name, d.phone, get_user_cart(users, u),
                             d.delivery_type, d.delivery_cost, d.address,
                             d.comment)
       IN /\ counters' = get_next_order_number(counters)
          /\ orders' = Append(orders, Order(ReturnedSeq(counters'), args))
    /\ users' = clear_cart(users, u)
    /\ conv' = [conv EXCEPT ![u] = END]
    /\ path' = [path EXCEPT ![u] = <<>>]
    /\ entered' = [entered EXCEPT ![u] =
                     [NoEntered EXCEPT !.cancelled = entered[u].cancelled]]
    /\ UNCHANGED <<callVars, concVars, products, user_data, adminVars>>

\* A variant of the handler below that leaves the stored cart alone.
ConfirmOrder_keepcart(u) ==
    /\ conv[u] = CONFIRM_ORDER
    /\ Placed < MaxOrders
    /\ LET d == user_data[u]
           args == OrderArgs(u, d.customer_name, d.phone, d.checkout_cart,
                             d.delivery_type, d.delivery_cost, d.address,
                             d.comment)
       IN /\ counters' = get_next_order_number(counters)
          /\ orders' = Append(orders, Order(ReturnedSeq(counters'), args))
    /\ conv' = [conv EXCEPT ![u] = END]
    /\ path' = [path EXCEPT ![u] = <<>>]
    /\ entered' = [entered EXCEPT ![u] =
                     [NoEntered EXCEPT !.cancelled = entered[u].cancelled]]
    /\ UNCHANGED <<users, callVars, concVars, products, user_data, adminVars>>

\* confirm_order: confirm_order_callback. create_order, then clear_cart.
ConfirmOrder(u) ==
    /\ conv[u] = CONFIRM_ORDER
    /\ Placed < MaxOrders
    /\ LET d == user_data[u]
           args == OrderArgs(u, d.customer_name, d.phone, d.checkout_cart,
                             d.delivery_type, d.delivery_cost, d.address,
                             d.comment)
       IN /\ counters' = get_next_order_number(counters)
          /\ orders' = Append(orders, Order(ReturnedSeq(counters'), args))
    /\ users' = clear_cart(users, u)
    /\ conv' = [conv EXCEPT ![u] = END]
    /\ path' = [path EXCEPT ![u] = <<>>]
    /\ entered' = [entered EXCEPT ![u] =
                     [NoEntered EXCEPT !.cancelled = entered[u].cancelled]]
    /\ UNCHANGED <<callVars, concVars, products, user_data, adminVars>>

\* A variant of the handler below that empties context.user_data.
Cancel_clear(u) ==
    /\ conv[u] # END
    /\ conv' = [conv EXCEPT ![u] = END]
    /\ path' = [path EXCEPT ![u] = <<>>]
    /\ entered' = [entered EXCEPT ![u] =
                     [NoEntered EXCEPT !.cancelled = TRUE]]
    /\ user_data' = [user_data EXCEPT ![u] = NoUserData]
    /\ UNCHANGED <<last, users, Untouched>>

\* /cancel: the fallback of checkout_conv, cancel(). Only a user who is in a
\* state of checkout_conv reaches it.
Cancel(u) ==
    /\ conv[u] # END
    /\ conv' = [conv EXCEPT ![u] = END]
    /\ path' = [path EXCEPT ![u] = <<>>]
    /\ entered' = [entered EXCEPT ![u] =
                     [NoEntered EXCEPT !.cancelled = TRUE]]
    /\ UNCHANGED <<last, users, Untouched, user_data>>

NextBot ==
    \/ \E u \in BotUsers : Start(u)
    \/ \E u \in BotUsers, pid \in BotProducts : QtyMinus(u, pid)
    \/ \E u \in BotUsers, pid \in BotProducts : QtyPlus(u, pid)
    \/ \E u \in BotUsers, pid \in BotProducts : AddCart(u, pid)
    \/ \E u \in BotUsers, pid \in BotProducts : CartMinus(u, pid)
    \/ \E u \in BotUsers, pid \in BotProducts : CartPlus(u, pid)
    \/ \E u \in BotUsers, pid \in BotProducts : CartRemove(u, pid)
    \/ \E u \in BotUsers : CartClear(u)
    \/ \E u \in BotUsers : Checkout(u)
    \/ \E u \in BotUsers : CheckoutCancel(u)
    \/ \E u \in BotUsers : DeliveryPickup(u)
    \/ \E u \in BotUsers : DeliveryDelivery(u)
    \/ \E u \in BotUsers, text \in Addresses : ReceiveAddress(u, text)
    \/ \E u \in BotUsers, text \in Names : ReceiveName(u, text)
    \/ \E u \in BotUsers, phone \in Phones : ReceivePhone(u, phone)
    \/ \E u \in BotUsers, text \in Comments : ReceiveComment(u, text)
    \/ \E u \in BotUsers : SkipComment(u)
    \/ \E u \in BotUsers : CancelOrder(u)
    \/ \E u \in BotUsers : ConfirmOrder(u)
    \/ \E u \in BotUsers : Cancel(u)

SpecBot == InitBot /\ [][NextBot]_vars

\* --------------------------------------------------------------- SpecFlow
\* The checkout conversation of one customer who fills the cart with the
\* add_cart button only and types one of two addresses and one of two names,
\* on a store that holds an order of an earlier run of the bot.

FlowAddresses == {"street", "lane"}
FlowNames == {"name", "alias"}

InitFlow ==
    /\ users = <<>>
    /\ counters = get_next_order_number(<<>>)
    /\ orders = <<EarlierOrder>>
    /\ last = NoCall
    /\ prev = [appended |-> FALSE, cleared |-> 0]
    /\ tasks = <<>>
    /\ issued = <<>>
    /\ ofloor = <<>>
    /\ NoBot

NextFlow ==
    \/ \E u \in BotUsers : Start(u)
    \/ \E u \in BotUsers, pid \in BotProducts : AddCart(u, pid)
    \/ \E u \in BotUsers : Checkout(u)
    \/ \E u \in BotUsers : CheckoutCancel(u)
    \/ \E u \in BotUsers : DeliveryPickup(u)
    \/ \E u \in BotUsers : DeliveryDelivery(u)
    \/ \E u \in BotUsers, text \in FlowAddresses : ReceiveAddress(u, text)
    \/ \E u \in BotUsers, text \in FlowNames : ReceiveName(u, text)
    \/ \E u \in BotUsers, phone \in Phones : ReceivePhone(u, phone)
    \/ \E u \in BotUsers, text \in Comments : ReceiveComment(u, text)
    \/ \E u \in BotUsers : SkipComment(u)
    \/ \E u \in BotUsers : CancelOrder(u)
    \/ \E u \in BotUsers : ConfirmOrder(u)
    \/ \E u \in BotUsers : Cancel(u)

SpecFlow == InitFlow /\ [][NextFlow]_vars

\* -------------------------------------------------------------- SpecAdmin
\* The administrator of init_test_data as a customer and as an administrator.
\* main() registers checkout_conv before admin_conv, and every update goes to
\* the first of the two that accepts it. A ConversationHandler accepts an
\* update of a user who is in none of its states when one of its entry points
\* matches; of a user who is in one of its states when a handler of that
\* state or a fallback matches, its entry points being left out
\* (allow_reentry is not set). Each of the two keeps its own state of the
\* user. The administrator has a cart in the store and presses no product
\* or cart button but checkout.

\* Who presses the admin buttons, what they type in the admin states, and the
\* category and product buttons they press.
AdminUsers == {1, 2}
IdTexts == {"1", "7", "abc"}
AdminTexts == {"7", "abc"}
NewNames == {"roll"}
AdminCategories == {"c3"}
EditFields == {"name", "price"}
NewProductIds == {"c"}

\* int(text) and float(text.replace(",", ".")) raise ValueError for a text
\* that is not a number.
ValueError(text) == text \notin {"1", "7"}

\* int(text), for a text it takes.
ParseInt(text) == IF text = "1" THEN 1 ELSE 7

\* float(text.replace(",", ".")), for a text it takes, in hundredths.
ParsePrice(text) == 100 * ParseInt(text)

\* create_product: a product under an id of its own.
create_product(ps, id, name, price, category_id) ==
    [pid \in DOMAIN ps \cup {id} |->
        IF pid = id
        THEN [name |-> name, price |-> price, category_id |-> category_id]
        ELSE ps[pid]]

\* update_product: update_one of one field; no product with the id, no
\* change.
update_product(ps, pid, field, value) ==
    IF pid \in DOMAIN ps THEN [ps EXCEPT ![pid][field] = value] ELSE ps

\* The states of checkout_conv that take a text: the text of a user in one
\* of them goes to checkout_conv and never reaches admin_conv.
CheckoutText(u) ==
    conv[u] \in {WAITING_ADDRESS, WAITING_NAME, WAITING_PHONE, WAITING_COMMENT}

CheckoutSide == <<users, counters, orders, callVars, concVars, conv,
                  user_data, path, entered, categories>>

InitAdmin ==
    /\ users = add_to_cart(get_or_create_user(<<>>, FirstAdmin), FirstAdmin,
                           "a", InitialProducts["a"].name, 1,
                           InitialProducts["a"].price)
    /\ counters = <<>>
    /\ orders = <<>>
    /\ last = NoCall
    /\ prev = [appended |-> FALSE, cleared |-> 0]
    /\ tasks = <<>>
    /\ issued = <<>>
    /\ ofloor = <<>>
    /\ NoBot

\* The denial of admin_command and admin_callback, kept in `last` with the
\* checkout state of the user it answers.
Denied(u) == [NoCall EXCEPT !.op = "denied", !.tid = u, !.result = <<conv[u]>>]

\* What the entry handlers leave alone.
EntryFrame == <<users, counters, orders, prev, concVars, conv, user_data,
                path, entered, products, admins, receivers, categories>>

\* /admin: admin_command, an entry point of admin_conv. It answers with the
\* denial or with the admin keyboard and returns no state; from a user who
\* is in a state of admin_conv no handler takes the command.
AdminCommand(u) ==
    /\ last' = IF admin_conv[u] = END /\ ~is_admin(admins, u)
               THEN Denied(u) ELSE last
    /\ UNCHANGED <<EntryFrame, admin_conv, admin_data>>

\* admin_admins, admin_receivers, admin_categories, admin_products,
\* admin_back and the other menu buttons: admin_callback, as an entry point
\* or as a fallback. They edit the message and return no state.
AdminMenu(u) ==
    /\ last' = IF is_admin(admins, u) THEN last ELSE Denied(u)
    /\ UNCHANGED <<EntryFrame, admin_conv, admin_data>>

\* A variant of the handler below without the is_admin check.
AdminOpen_anyone(u, to) ==
    /\ admin_conv' = [admin_conv EXCEPT ![u] = to]
    /\ UNCHANGED <<EntryFrame, last, admin_data>>

\* admin_add_admin, admin_add_receiver, admin_broadcast: admin_callback, as
\* an entry point or as a fallback. checkout_conv has no handler for the button in any state.
AdminOpen(u, to) ==
    /\ IF is_admin(admins, u)
       THEN /\ admin_conv' = [admin_conv EXCEPT ![u] = to]
            /\ UNCHANGED last
       ELSE /\ last' = Denied(u)
            /\ UNCHANGED admin_conv
    /\ UNCHANGED <<EntryFrame, admin_data>>

\* add_prod_cat_<id>: admin_callback, an entry point only.
AddProdCat(u, cat) ==
    /\ IF admin_conv[u] = END /\ is_admin(admins, u)
       THEN /\ admin_data' = [admin_data EXCEPT
                                 ![u].new_product_category = cat]
            /\ admin_conv' = [admin_conv EXCEPT ![u] = ADMIN_ADD_PRODUCT_NAME]
            /\ UNCHANGED last
       ELSE /\ last' = IF admin_conv[u] = END THEN Denied(u) ELSE last
            /\ UNCHANGED <<admin_conv, admin_data>>
    /\ UNCHANGED EntryFrame

\* edit_prod_<id>: admin_callback, an entry point only; it returns no state.
EditProd(u, pid) ==
    /\ IF admin_conv[u] = END /\ is_admin(admins, u)
       THEN /\ admin_data' = [admin_data EXCEPT ![u].edit_product_id = pid]
            /\ UNCHANGED last
       ELSE /\ last' = IF admin_conv[u] = END THEN Denied(u) ELSE last
            /\ UNCHANGED admin_data
    /\ UNCHANGED <<EntryFrame, admin_conv>>

\* edit_prod_field_<field>: admin_callback, an entry point only.
EditProdField(u, field) ==
    /\ IF admin_conv[u] = END /\ is_admin(admins, u)
       THEN /\ admin_data' = [admin_data EXCEPT
                                 ![u].edit_product_field = field]
            /\ admin_conv' = [admin_conv EXCEPT
                                 ![u] = ADMIN_EDIT_PRODUCT_VALUE]
            /\ UNCHANGED last
       ELSE /\ last' = IF admin_conv[u] = END THEN Denied(u) ELSE last
            /\ UNCHANGED <<admin_conv, admin_data>>
    /\ UNCHANGED EntryFrame

\* a text in ADMIN_ADD_ADMIN: admin_add_admin_handler
AdminAddAdmin(u, text) ==
    /\ ~CheckoutText(u)
    /\ admin_conv[u] = ADMIN_ADD_ADMIN
    /\ admins' = IF ValueError(text)
                 THEN admins
                 ELSE add_admin(admins, ParseInt(text), u)
    /\ admin_conv' = [admin_conv EXCEPT ![u] = END]
    /\ UNCHANGED <<CheckoutSide, products, admin_data, receivers>>

\* a text in ADMIN_ADD_RECEIVER: admin_add_receiver_handler
AdminAddReceiver(u, text) ==
    /\ ~CheckoutText(u)
    /\ admin_conv[u] = ADMIN_ADD_RECEIVER
    /\ receivers' = IF ValueError(text)
                    THEN receivers
                    ELSE add_notification_receiver(receivers, ParseInt(text), u)
    /\ admin_conv' = [admin_conv EXCEPT ![u] = END]
    /\ UNCHANGED <<CheckoutSide, products, admin_data, admins>>

\* a text in ADMIN_ADD_PRODUCT_NAME: admin_add_product_name_handler
AdminAddProductName(u, text) ==
    /\ ~CheckoutText(u)
    /\ admin_conv[u] = ADMIN_ADD_PRODUCT_NAME
    /\ admin_data' = [admin_data EXCEPT ![u].new_product_name = text]
    /\ admin_conv' = [admin_conv EXCEPT ![u] = ADMIN_ADD_PRODUCT_DESC]
    /\ UNCHANGED <<CheckoutSide, products, admins, receivers>>

\* a text in ADMIN_ADD_PRODUCT_DESC: admin_add_product_desc_handler
AdminAddProductDesc(u, text) ==
    /\ ~CheckoutText(u)
    /\ admin_conv[u] = ADMIN_ADD_PRODUCT_DESC
    /\ admin_data' = [admin_data EXCEPT ![u].new_product_desc = text]
    /\ admin_conv' = [admin_conv EXCEPT ![u] = ADMIN_ADD_PRODUCT_PRICE]
    /\ UNCHANGED <<CheckoutSide, products, admins, receivers>>

\* a text in ADMIN_ADD_PRODUCT_PRICE: admin_add_product_price_handler
AdminAddProductPrice(u, text) ==
    /\ ~CheckoutText(u)
    /\ admin_conv[u] = ADMIN_ADD_PRODUCT_PRICE
    /\ IF ValueError(text)
       THEN UNCHANGED <<admin_conv, admin_data>>
       ELSE /\ admin_data' = [admin_data EXCEPT
                                 ![u].new_product_price = ParsePrice(text)]
            /\ admin_conv' = [admin_conv EXCEPT
                                 ![u] = ADMIN_ADD_PRODUCT_IMAGE]
    /\ UNCHANGED <<CheckoutSide, products, admins, receivers>>

\* create_product_from_context
create_product_from_context(u) ==
    /\ \E id \in NewProductIds : id \notin DOMAIN products
    /\ LET id == CHOOSE i \in NewProductIds : i \notin DOMAIN products
       IN products' = create_product(products, id,
                                     admin_data[u].new_product_name,
                                     admin_data[u].new_product_price,
                                     admin_data[u].new_product_category)
    /\ admin_conv' = [admin_conv EXCEPT ![u] = END]
    /\ UNCHANGED <<CheckoutSide, admin_data, admins, receivers>>

\* a photo in ADMIN_ADD_PRODUCT_IMAGE: admin_add_product_photo_handler. No
\* state of checkout_conv takes a photo.
AdminAddProductPhoto(u) ==
    /\ admin_conv[u] = ADMIN_ADD_PRODUCT_IMAGE
    /\ create_product_from_context(u)

\* a text in ADMIN_ADD_PRODUCT_IMAGE: admin_add_product_image_handler
AdminAddProductImage(u) ==
    /\ ~CheckoutText(u)
    /\ admin_conv[u] = ADMIN_ADD_PRODUCT_IMAGE
    /\ create_product_from_context(u)

\* skip_product_image: skip_product_image_callback
SkipProductImage(u) ==
    /\ admin_conv[u] = ADMIN_ADD_PRODUCT_IMAGE
    /\ create_product_from_context(u)

\* a text in ADMIN_EDIT_PRODUCT_VALUE: admin_edit_product_value_handler
AdminEditProductValue(u, text) ==
    /\ ~CheckoutText(u)
    /\ admin_conv[u] = ADMIN_EDIT_PRODUCT_VALUE
    /\ LET field == admin_data[u].edit_product_field
           prod_id == admin_data[u].edit_product_id
       IN products' =
             IF field = "price"
             THEN IF ValueError(text)
                  THEN products
                  ELSE update_product(products, prod_id, field,
                                      ParsePrice(text))
             ELSE update_product(products, prod_id, field, text)
    /\ admin_conv' = [admin_conv EXCEPT ![u] = END]
    /\ UNCHANGED <<CheckoutSide, admin_data, admins, receivers>>

\* a photo in ADMIN_EDIT_PRODUCT_VALUE: admin_edit_product_photo_handler. It
\* stores nothing unless the field is the image, which the products of the
\* model do not carry, and ends the conversation.
AdminEditProductPhoto(u) ==
    /\ admin_conv[u] = ADMIN_EDIT_PRODUCT_VALUE
    /\ admin_conv' = [admin_conv EXCEPT ![u] = END]
    /\ UNCHANGED <<CheckoutSide, products, admin_data, admins, receivers>>

\* /cancel: the fallback of admin_conv, cancel(). The command of a user who
\* is in a state of checkout_conv goes to the fallback of checkout_conv and
\* never reaches admin_conv.
AdminCancel(u) ==
    /\ conv[u] = END
    /\ admin_conv[u] # END
    /\ admin_conv' = [admin_conv EXCEPT ![u] = END]
    /\ UNCHANGED <<CheckoutSide, products, admin_data, admins, receivers>>

NextAdmin ==
    \/ \E u \in BotUsers : Checkout(u)
    \/ \E u \in BotUsers : CheckoutCancel(u)
    \/ \E u \in BotUsers : DeliveryPickup(u)
    \/ \E u \in BotUsers : DeliveryDelivery(u)
    \/ \E u \in BotUsers, text \in Addresses : ReceiveAddress(u, text)
    \/ \E u \in BotUsers, text \in Names : ReceiveName(u, text)
    \/ \E u \in BotUsers, phone \in Phones : ReceivePhone(u, phone)
    \/ \E u \in BotUsers, text \in Comments : ReceiveComment(u, text)
    \/ \E u \in BotUsers : SkipComment(u)
    \/ \E u \in BotUsers : CancelOrder(u)
    \/ \E u \in BotUsers : ConfirmOrder(u)
    \/ \E u \in BotUsers : Cancel(u)
    \/ \E u \in AdminUsers : AdminCommand(u)
    \/ \E u \in AdminUsers : AdminMenu(u)
    \/ \E u \in AdminUsers, to \in {ADMIN_ADD_ADMIN, ADMIN_ADD_RECEIVER} :
          AdminOpen(u, to)
    \/ \E u \in AdminUsers, cat \in AdminCategories : AddProdCat(u, cat)
    \/ \E u \in AdminUsers, pid \in BotProducts : EditProd(u, pid)
    \/ \E u \in AdminUsers, field \in EditFields : EditProdField(u, field)
    \/ \E u \in AdminUsers, text \in IdTexts : AdminAddAdmin(u, text)
    \/ \E u \in AdminUsers, text \in IdTexts : AdminAddReceiver(u, text)
    \/ \E u \in AdminUsers, text \in NewNames : AdminAddProductName(u, text)
    \/ \E u \in AdminUsers, text \in NewNames : AdminAddProductDesc(u, text)
    \/ \E u \in AdminUsers, text \in AdminTexts : AdminAddProductPrice(u, text)
    \/ \E u \in AdminUsers : AdminAddProductPhoto(u)
    \/ \E u \in AdminUsers : AdminAddProductImage(u)
    \/ \E u \in AdminUsers : SkipProductImage(u)
    \/ \E u \in AdminUsers, text \in AdminTexts : AdminEditProductValue(u, text)
    \/ \E u \in AdminUsers : AdminEditProductPhoto(u)
    \/ \E u \in AdminUsers : AdminCancel(u)

SpecAdmin == InitAdmin /\ [][NextAdmin]_vars

\* -------------------------------------------------------------- SpecRoles
\* add_admin, remove_admin, add_notification_receiver and
\* remove_notification_receiver called one after the other, each call run to
\* its end, on the store init_test_data leaves (backend_test.py:
\* test_admin_operations, test_notification_receiver_operations).

RoleIds == {1, 2, 7}

\* The record of a call on the admins or the receivers: the id and what the
\* call returned.
RoleCall(op, tid, result) ==
    [NoCall EXCEPT !.op = op, !.tid = tid, !.result = result]

InitRoles == InitBot

\* await add_admin(tid, by)
AddAdmin(tid, by) ==
    /\ admins' = add_admin(admins, tid, by)
    /\ last' = RoleCall("add_admin", tid, add_admin_result(admins, tid, by))
    /\ UNCHANGED <<dbVars, prev, concVars, products, conv, user_data, path,
                   entered, admin_conv, admin_data, receivers, categories>>

\* await remove_admin(tid)
RemoveAdmin(tid) ==
    /\ admins' = remove_admin(admins, tid)
    /\ last' = RoleCall("remove_admin", tid, <<>>)
    /\ UNCHANGED <<dbVars, prev, concVars, products, conv, user_data, path,
                   entered, admin_conv, admin_data, receivers, categories>>

\* await add_notification_receiver(tid, by)
AddNotificationReceiver(tid, by) ==
    /\ receivers' = add_notification_receiver(receivers, tid, by)
    /\ last' = RoleCall("add_notification_receiver", tid,
                        add_notification_receiver_result(receivers, tid, by))
    /\ UNCHANGED <<dbVars, prev, concVars, products, conv, user_data, path,
                   entered, admin_conv, admin_data, admins, categories>>

\* await remove_notification_receiver(tid)
RemoveNotificationReceiver(tid) ==
    /\ receivers' = remove_notification_receiver(receivers, tid)
    /\ last' = RoleCall("remove_notification_receiver", tid, <<>>)
    /\ UNCHANGED <<dbVars, prev, concVars, products, conv, user_data, path,
                   entered, admin_conv, admin_data, admins, categories>>

NextRoles ==
    \/ \E tid \in RoleIds : AddAdmin(tid, FirstAdmin)
    \/ \E tid \in RoleIds : RemoveAdmin(tid)
    \/ \E tid \in RoleIds : AddNotificationReceiver(tid, FirstAdmin)
    \/ \E tid \in RoleIds : RemoveNotificationReceiver(tid)

SpecRoles == InitRoles /\ [][NextRoles]_vars

\* --------------------------------------------------------------- SpecRace
\* add_admin, add_notification_receiver, get_or_create_user, add_to_cart and
\* update_cart_item_quantity called from independent tasks, one call each. A
\* call awaits find_one, works on what it read, and awaits insert_one or
\* update_one; the other task can run between the two steps of the store.
\* `users` keeps the first record of each id, the one find_one and update_one
\* work on; a user record inserted behind it shows in the task that
\* inserted it.

Racers == {1, 2}
NewRoleIds == {7}
NewUserIds == {2}
RaceQuantities == {0, 1, 2}

Line(pid, quantity) ==
    [product_id |-> pid, product_name |-> InitialProducts[pid].name,
     quantity |-> quantity, price |-> InitialProducts[pid].price]

IdleRace == [pc |-> "idle", op |-> "none", tid |-> 0, pid |-> None,
             quantity |-> 0, found |-> FALSE, cart |-> <<>>]

\* The store holds the first customer with an empty cart or with one line.
InitRace ==
    /\ \E cart \in {<<>>, <<Line("a", 1)>>} :
          users = [tid \in {1} |-> [cart |-> cart, phone |-> None]]
    /\ counters = <<>>
    /\ orders = <<>>
    /\ last = NoCall
    /\ prev = [appended |-> FALSE, cleared |-> 0]
    /\ tasks = [t \in Racers |-> IdleRace]
    /\ issued = <<>>
    /\ ofloor = <<>>
    /\ NoBot

RaceFrame == <<counters, orders, callVars, issued, ofloor, products, conv,
               user_data, path, entered, admin_conv, admin_data, categories>>

\* add_admin: the store runs find_one; a record found, the call returns None.
FindAdmin(t, tid) ==
    /\ tasks[t].pc = "idle"
    /\ tasks' = [tasks EXCEPT
                    ![t] = [IdleRace EXCEPT
                              !.op = "add_admin", !.tid = tid,
                              !.found = is_admin(admins, tid),
                              !.pc = IF is_admin(admins, tid)
                                     THEN "done" ELSE "write"]]
    /\ UNCHANGED <<users, admins, receivers, RaceFrame>>

\* add_admin: the store runs insert_one.
InsertAdmin(t) ==
    /\ tasks[t].pc = "write"
    /\ tasks[t].op = "add_admin"
    /\ admins' = Append(admins, Role(tasks[t].tid, FirstAdmin))
    /\ tasks' = [tasks EXCEPT ![t].pc = "done"]
    /\ UNCHANGED <<users, receivers, RaceFrame>>

\* add_notification_receiver: the store runs find_one.
FindReceiver(t, tid) ==
    /\ tasks[t].pc = "idle"
    /\ tasks' = [tasks EXCEPT
                    ![t] = [IdleRace EXCEPT
                              !.op = "add_notification_receiver", !.tid = tid,
                              !.found = FirstRole(receivers, tid) # 0,
                              !.pc = IF FirstRole(receivers, tid) # 0
                                     THEN "done" ELSE "write"]]
    /\ UNCHANGED <<users, admins, receivers, RaceFrame>>

\* add_notification_receiver: the store runs insert_one.
InsertReceiver(t) ==
    /\ tasks[t].pc = "write"
    /\ tasks[t].op = "add_notification_receiver"
    /\ receivers' = Append(receivers, Role(tasks[t].tid, FirstAdmin))
    /\ tasks' = [tasks EXCEPT ![t].pc = "done"]
    /\ UNCHANGED <<users, admins, RaceFrame>>

\* get_or_create_user: the store runs find_one; a record found, the call
\* returns it.
FindUser(t, tid) ==
    /\ tasks[t].pc = "idle"
    /\ tasks' = [tasks EXCEPT
                    ![t] = [IdleRace EXCEPT
                              !.op = "get_or_create_user", !.tid = tid,
                              !.found = tid \in DOMAIN users,
                              !.pc = IF tid \in DOMAIN users
                                     THEN "done" ELSE "write"]]
    /\ UNCHANGED <<users, admins, receivers, RaceFrame>>

\* get_or_create_user: the store runs insert_one. The record goes behind a
\* record of the id that is there by now.
InsertUser(t) ==
    /\ tasks[t].pc = "write"
    /\ tasks[t].op = "get_or_create_user"
    /\ users' = get_or_create_user(users, tasks[t].tid)
    /\ tasks' = [tasks EXCEPT ![t].pc = "done"]
    /\ UNCHANGED <<admins, receivers, RaceFrame>>

\* add_to_cart, update_cart_item_quantity: the store runs find_one; no user
\* found, the call returns.
ReadCart(t, op, tid, pid, quantity) ==
    /\ tasks[t].pc = "idle"
    /\ tasks' = [tasks EXCEPT
                    ![t] = [IdleRace EXCEPT
                              !.op = op, !.tid = tid, !.pid = pid,
                              !.quantity = quantity,
                              !.found = tid \in DOMAIN users,
                              !.cart = get_user_cart(users, tid),
                              !.pc = IF tid \in DOMAIN users
                                     THEN "write" ELSE "done"]]
    /\ UNCHANGED <<users, admins, receivers, RaceFrame>>

\* A variant of the code below that works on the cart stored at the time of
\* the write.
WrittenCart_stored(task, stored) ==
    IF task.op = "add_to_cart"
    THEN AddedCart(stored, task.pid, InitialProducts[task.pid].name,
                   task.quantity, InitialProducts[task.pid].price)
    ELSE UpdatedCart(stored, task.pid, task.quantity)

\* The cart a call hands to update_one: the cart it read, changed.
WrittenCart(task, stored) ==
    IF task.op = "add_to_cart"
    THEN AddedCart(task.cart, task.pid, InitialProducts[task.pid].name,
                   task.quantity, InitialProducts[task.pid].price)
    ELSE UpdatedCart(task.cart, task.pid, task.quantity)

\* add_to_cart, update_cart_item_quantity: the store runs update_one with
\* $set of the whole cart.
WriteCart(t) ==
    /\ tasks[t].pc = "write"
    /\ tasks[t].op \in {"add_to_cart", "update_cart_item_quantity"}
    /\ users' = [users EXCEPT
                    ![tasks[t].tid].cart = WrittenCart(tasks[t], @)]
    /\ tasks' = [tasks EXCEPT ![t].pc = "done"]
    /\ UNCHANGED <<admins, receivers, RaceFrame>>

NextRace ==
    \/ \E t \in Racers, tid \in NewRoleIds : FindAdmin(t, tid)
    \/ \E t \in Racers : InsertAdmin(t)
    \/ \E t \in Racers, tid \in NewRoleIds : FindReceiver(t, tid)
    \/ \E t \in Racers : InsertReceiver(t)
    \/ \E t \in Racers, tid \in NewUserIds : FindUser(t, tid)
    \/ \E t \in Racers : InsertUser(t)
    \/ \E t \in Racers, pid \in ProductIds :
          ReadCart(t, "add_to_cart", 1, pid, 1)
    \/ \E t \in Racers, pid \in ProductIds, q \in RaceQuantities :
          ReadCart(t, "update_cart_item_quantity", 1, pid, q)
    \/ \E t \in Racers : WriteCart(t)

SpecRace == InitRace /\ [][NextRace]_vars

\* ------------------------------------------------------------- SpecAccess
\* The permission check of the admin handlers. User 1 is a customer who is
\* not an administrator at the start, user 2 an administrator whom the first
\* administrator added; either may add or remove the other.

\* database.py delete_product: delete_one by id.
delete_product(ps, pid) == [p \in DOMAIN ps \ {pid} |-> ps[p]]

InitAccess ==
    /\ users = add_to_cart(get_or_create_user(<<>>, 1), 1,
                           "a", InitialProducts["a"].name, 1,
                           InitialProducts["a"].price)
    /\ counters = <<>>
    /\ orders = <<>>
    /\ last = NoCall
    /\ prev = [appended |-> FALSE, cleared |-> 0]
    /\ tasks = <<>>
    /\ issued = <<>>
    /\ ofloor = <<>>
    /\ products = InitialProducts
    /\ conv = [u \in UserIds |-> END]
    /\ user_data = [u \in UserIds |-> NoUserData]
    /\ path = [u \in UserIds |-> <<>>]
    /\ entered = [u \in UserIds |-> NoEntered]
    /\ admin_conv = [u \in UserIds |-> END]
    /\ admin_data = [u \in UserIds |-> NoAdminData]
    /\ admins = <<Role(2, FirstAdmin)>>
    /\ receivers = <<Role(FirstAdmin, FirstAdmin)>>
    /\ categories = InitialCategories

\* remove_admin_<id>: admin_callback, an entry point only. After
\* db.remove_admin the handler calls itself with the same payload and
\* never returns a state, so the conversation state stays as it was.
RemoveAdminCallback(u, tid) ==
    /\ IF admin_conv[u] # END
       THEN UNCHANGED <<admins, last>>
       ELSE IF ~is_admin(admins, u)
       THEN /\ last' = Denied(u)
            /\ UNCHANGED admins
       ELSE /\ admins' = IF tid = u THEN admins ELSE remove_admin(admins, tid)
            /\ UNCHANGED last
    /\ UNCHANGED <<users, counters, orders, prev, concVars, conv, user_data,
                   path, entered, products, receivers, admin_conv,
                   admin_data, categories>>

\* del_prod_<id>: admin_callback, an entry point only; db.delete_product,
\* then the same self call.
DelProdCallback(u, pid) ==
    /\ IF admin_conv[u] # END
       THEN UNCHANGED <<products, last>>
       ELSE IF ~is_admin(admins, u)
       THEN /\ last' = Denied(u)
            /\ UNCHANGED products
       ELSE /\ products' = delete_product(products, pid)
            /\ UNCHANGED last
    /\ UNCHANGED <<users, counters, orders, prev, concVars, conv, user_data,
                   path, entered, admins, receivers, admin_conv, admin_data,
                   categories>>

NextAccess ==
    \/ \E u \in BotUsers : Checkout(u)
    \/ \E u \in BotUsers : CheckoutCancel(u)
    \/ \E u \in BotUsers : DeliveryPickup(u)
    \/ \E u \in BotUsers : DeliveryDelivery(u)
    \/ \E u \in BotUsers, text \in Addresses : ReceiveAddress(u, text)
    \/ \E u \in BotUsers, text \in Names : ReceiveName(u, text)
    \/ \E u \in BotUsers, phone \in Phones : ReceivePhone(u, phone)
    \/ \E u \in BotUsers, text \in Comments : ReceiveComment(u, text)
    \/ \E u \in BotUsers : SkipComment(u)
    \/ \E u \in BotUsers : CancelOrder(u)
    \/ \E u \in BotUsers : ConfirmOrder(u)
    \/ \E u \in BotUsers : Cancel(u)
    \/ \E u \in AdminUsers : AdminCommand(u)
    \/ \E u \in AdminUsers : AdminMenu(u)
    \/ \E u \in AdminUsers, to \in {ADMIN_ADD_ADMIN, ADMIN_ADD_RECEIVER} :
          AdminOpen(u, to)
    \/ \E u \in AdminUsers, tid \in AdminUsers : RemoveAdminCallback(u, tid)
    \/ \E u \in AdminUsers, pid \in BotProducts : DelProdCallback(u, pid)
    \/ \E u \in AdminUsers, text \in IdTexts : AdminAddAdmin(u, text)
    \/ \E u \in AdminUsers, text \in IdTexts : AdminAddReceiver(u, text)
    \/ \E u \in AdminUsers : AdminCancel(u)

SpecAccess == InitAccess /\ [][NextAccess]_vars

\* ------------------------------------------------------------- SpecFanout
\* The two loops that send one message to many chats: notify_new_order, at
\* the end of confirm_order_callback, and admin_broadcast_handler. Which
\* deliveries fail is the choice of the environment: `fails` is the set of
\* positions of the recipient list whose send_message raises. The handler
\* records in `last` the chats it called send_message for, in order, the
\* failed positions, the count it reports and whether it returned.

\* The length arguments of to_list in get_notification_receivers and
\* get_all_subscribers.
ReceiversToList == 100
SubscribersToList == 10000

\* Motor's to_list(n): at most the first n documents.
to_list(docs, n) == SubSeq(docs, 1, IF Len(docs) < n THEN Len(docs) ELSE n)

\* The stored users as a list of documents, in ascending id order.
RECURSIVE UserDocs(_, _)
UserDocs(us, ids) ==
    IF ids = {}
    THEN <<>>
    ELSE LET t == CHOOSE x \in ids : \A y \in ids : x <= y
         IN <<[telegram_id |-> t]>> \o UserDocs(us, ids \ {t})

get_notification_receivers(rs) == to_list(rs, ReceiversToList)
get_all_subscribers(us) == to_list(UserDocs(us, DOMAIN us), SubscribersToList)

NoFanout == [attempted |-> <<>>, success_count |-> 0, raised |-> FALSE]

\* A loop that lets the first failure out: nothing is sent after it.
RECURSIVE SendAll_abort(_, _, _, _)
SendAll_abort(docs, fails, i, acc) ==
    IF i > Len(docs) \/ acc.raised
    THEN acc
    ELSE SendAll_abort(docs, fails, i + 1,
            [attempted |-> Append(acc.attempted, docs[i].telegram_id),
             success_count |-> IF i \in fails THEN acc.success_count
                                              ELSE acc.success_count + 1,
             raised |-> i \in fails])

\* A loop that counts the attempts, not the successes.
RECURSIVE SendAll_countall(_, _, _, _)
SendAll_countall(docs, fails, i, acc) ==
    IF i > Len(docs)
    THEN acc
    ELSE SendAll_countall(docs, fails, i + 1,
            [acc EXCEPT !.attempted = Append(@, docs[i].telegram_id),
                        !.success_count = @ + 1])

\* for doc in docs: try: send_message(doc["telegram_id"]); success_count += 1
\* except Exception: log. The iterations from position i on.
RECURSIVE SendAll(_, _, _, _)
SendAll(docs, fails, i, acc) ==
    IF i > Len(docs)
    THEN acc
    ELSE SendAll(docs, fails, i + 1,
            [acc EXCEPT !.attempted = Append(@, docs[i].telegram_id),
                        !.success_count = IF i \in fails THEN @ ELSE @ + 1])

\* What a fan-out leaves in `last`.
Fanout(op, u, docs, fails) ==
    LET r == SendAll(docs, fails, 1, NoFanout)
    IN [NoCall EXCEPT !.op = op, !.tid = u, !.result = r.attempted,
                      !.had = fails, !.size = r.success_count,
                      !.quantity = Len(docs), !.known = ~r.raised]

InitFanout == InitAdmin

\* confirm_order as ConfirmOrder models it, with the deliveries of
\* notify_new_order recorded.
ConfirmOrderNotify(u, fails) ==
    /\ conv[u] = CONFIRM_ORDER
    /\ Placed < MaxOrders
    /\ LET d == user_data[u]
           args == OrderArgs(u, d.customer_name, d.phone, d.checkout_cart,
                             d.delivery_type, d.delivery_cost, d.address,
                             d.comment)
       IN /\ counters' = get_next_order_number(counters)
          /\ orders' = Append(orders, Order(ReturnedSeq(counters'), args))
    /\ users' = clear_cart(users, u)
    /\ conv' = [conv EXCEPT ![u] = END]
    /\ path' = [path EXCEPT ![u] = <<>>]
    /\ entered' = [entered EXCEPT ![u] =
                     [NoEntered EXCEPT !.cancelled = entered[u].cancelled]]
    /\ last' = Fanout("notify", u, get_notification_receivers(receivers),
                      fails)
    /\ UNCHANGED <<prev, concVars, products, user_data, adminVars>>

\* remove_receiver_<id>: admin_callback, an entry point only;
\* db.remove_notification_receiver, then the handler calls itself with the
\* same payload and returns no state.
RemoveReceiverCallback(u, tid) ==
    /\ IF admin_conv[u] # END
       THEN UNCHANGED <<receivers, last>>
       ELSE IF ~is_admin(admins, u)
       THEN /\ last' = Denied(u)
            /\ UNCHANGED receivers
       ELSE /\ receivers' = remove_notification_receiver(receivers, tid)
            /\ UNCHANGED last
    /\ UNCHANGED <<users, counters, orders, prev, concVars, conv, user_data,
                   path, entered, products, admins, admin_conv, admin_data,
                   categories>>

\* a text in ADMIN_BROADCAST_MESSAGE: admin_broadcast_handler.
AdminBroadcast(u, fails) ==
    /\ ~CheckoutText(u)
    /\ admin_conv[u] = ADMIN_BROADCAST_MESSAGE
    /\ last' = Fanout("broadcast", u, get_all_subscribers(users), fails)
    /\ admin_conv' = [admin_conv EXCEPT ![u] = END]
    /\ UNCHANGED <<users, counters, orders, prev, concVars, conv, user_data,
                   path, entered, products, admins, receivers, admin_data,
                   categories>>

NextFanout ==
    \/ \E u \in UserIds : Start(u)
    \/ \E u \in BotUsers : Checkout(u)
    \/ \E u \in BotUsers : CheckoutCancel(u)
    \/ \E u \in BotUsers : DeliveryPickup(u)
    \/ \E u \in BotUsers : DeliveryDelivery(u)
    \/ \E u \in BotUsers, text \in Addresses : ReceiveAddress(u, text)
    \/ \E u \in BotUsers, text \in Names : ReceiveName(u, text)
    \/ \E u \in BotUsers, phone \in Phones : ReceivePhone(u, phone)
    \/ \E u \in BotUsers, text \in Comments : ReceiveComment(u, text)
    \/ \E u \in BotUsers : SkipComment(u)
    \/ \E u \in BotUsers : CancelOrder(u)
    \/ \E u \in BotUsers, fails \in SUBSET (1..Len(receivers)) :
          ConfirmOrderNotify(u, fails)
    \/ \E u \in BotUsers : Cancel(u)
    \/ \E u \in AdminUsers,
          to \in {ADMIN_ADD_RECEIVER, ADMIN_BROADCAST_MESSAGE} :
          AdminOpen(u, to)
    \/ \E u \in AdminUsers, text \in IdTexts : AdminAddReceiver(u, text)
    \/ \E u \in AdminUsers, tid \in RoleIds : RemoveReceiverCallback(u, tid)
    \/ \E u \in AdminUsers, fails \in SUBSET (1..Cardinality(DOMAIN users)) :
          AdminBroadcast(u, fails)
    \/ \E u \in AdminUsers : AdminCancel(u)

SpecFanout == InitFanout /\ [][NextFanout]_vars

\* ---------------------------------------------------------------- SpecCat
\* create_category, create_product and delete_category of database.py,
\* called one at a time as backend_test.py and the admin handlers call
\* them. delete_category awaits three store operations; each is a step,
\* and `last` keeps the call in progress: the id, the store when the call
\* started (`snap`), the number of store operations done (`size`), what
\* delete_one reported (`known`) and, once it has returned, the value
\* returned (`result`).

CategoryIds == {"c1", "c2", "c3"}
ParentIds == {None, "c1", "c2"}

\* database.py create_category: insert_one of a document with a fresh id.
create_category(cs, id, parent_id) ==
    [c \in DOMAIN cs \cup {id} |->
        IF c = id THEN [parent_id |-> parent_id] ELSE cs[c]]

\* A delete_many that follows the subcategories one level further down.
delete_subcategories_deep(cs, category_id) ==
    [c \in {x \in DOMAIN cs :
              /\ cs[x].parent_id # category_id
              /\ ~(/\ cs[x].parent_id \in DOMAIN cs
                   /\ cs[cs[x].parent_id].parent_id = category_id)}
        |-> cs[c]]

\* categories_collection.delete_many({"parent_id": category_id})
delete_subcategories(cs, category_id) ==
    [c \in {x \in DOMAIN cs : cs[x].parent_id # category_id} |-> cs[c]]

\* categories_collection.delete_one({"id": category_id})
delete_one_category(cs, category_id) ==
    [c \in DOMAIN cs \ {category_id} |-> cs[c]]

\* products_collection.delete_many({"category_id": category_id})
delete_products(ps, category_id) ==
    [p \in {x \in DOMAIN ps : ps[x].category_id # category_id} |-> ps[p]]

Idle == last.op # "delete_category" \/ last.size = 3

InitCat ==
    /\ users = <<>>
    /\ counters = <<>>
    /\ orders = <<>>
    /\ last = NoCall
    /\ prev = [appended |-> FALSE, cleared |-> 0]
    /\ tasks = <<>>
    /\ issued = <<>>
    /\ ofloor = <<>>
    /\ NoBot

CatFrame == <<users, counters, orders, prev, concVars, conv, user_data, path,
              entered, admin_conv, admin_data, admins, receivers>>

CreateCategory(id, parent_id) ==
    /\ Idle
    /\ id \notin DOMAIN categories
    /\ parent_id # id
    /\ categories' = create_category(categories, id, parent_id)
    /\ last' = NoCall
    /\ UNCHANGED <<CatFrame, products>>

CreateProduct(pid, category_id) ==
    /\ Idle
    /\ pid \notin DOMAIN products
    /\ products' = create_product(products, pid, "roll", 100, category_id)
    /\ last' = NoCall
    /\ UNCHANGED <<CatFrame, categories>>

\* delete_category, up to the first await.
DeleteSubcategories(category_id) ==
    /\ Idle
    /\ categories' = delete_subcategories(categories, category_id)
    /\ last' = [NoCall EXCEPT !.op = "delete_category", !.pid = category_id,
                              !.snap = [categories |-> categories,
                                        products |-> products],
                              !.size = 1]
    /\ UNCHANGED <<CatFrame, products>>

\* delete_category, the delete_one of the category itself.
DeleteMain ==
    /\ last.op = "delete_category"
    /\ last.size = 1
    /\ categories' = delete_one_category(categories, last.pid)
    /\ last' = [last EXCEPT !.size = 2,
                            !.known = last.pid \in DOMAIN categories]
    /\ UNCHANGED <<CatFrame, products>>

\* delete_category, the delete_many of the products and the return.
DeleteProducts ==
    /\ last.op = "delete_category"
    /\ last.size = 2
    /\ products' = delete_products(products, last.pid)
    /\ last' = [last EXCEPT !.size = 3, !.result = <<last.known>>]
    /\ UNCHANGED <<CatFrame, categories>>

NextCat ==
    \/ \E id \in CategoryIds, parent_id \in ParentIds :
          CreateCategory(id, parent_id)
    \/ \E pid \in ProductIds, category_id \in CategoryIds :
          CreateProduct(pid, category_id)
    \/ \E category_id \in CategoryIds : DeleteSubcategories(category_id)
    \/ DeleteMain
    \/ DeleteProducts

SpecCat == InitCat /\ [][NextCat]_vars

\* ------------------------------------------------------------- SpecOrders
\* The stored orders of a customer under everything that is called after
\* create_order: the cart operations on the customer's cart, further
\* create_order calls with the cart as it then is, and update_order_status.
\* An order is addressed by its position in orders_collection, which stands
\* for its uuid.

OrderStatuses == {"confirmed", "cancelled"}

\* The arguments confirm_order passes for a pickup order of the stored cart.
CartArgs(tid) ==
    OrderArgs(tid, "name", "phone", get_user_cart(users, tid), "pickup", 0,
              PICKUP_ADDRESS, None)

\* An update that sets the total along with the status.
update_order_status_total(os, order_id, status) ==
    IF order_id \in 1..Len(os)
    THEN [os EXCEPT ![order_id].status = status, ![order_id].total = 0]
    ELSE os

\* database.py update_order_status: update_one({"id": order_id},
\* {"$set": {"status": status}}).
update_order_status(os, order_id, status) ==
    IF order_id \in 1..Len(os)
    THEN [os EXCEPT ![order_id].status = status]
    ELSE os

InitOrders ==
    /\ users = get_or_create_user(<<>>, 1)
    /\ counters = <<>>
    /\ orders = <<>>
    /\ last = NoCall
    /\ prev = [appended |-> FALSE, cleared |-> 0]
    /\ tasks = <<>>
    /\ issued = <<>>
    /\ ofloor = <<>>
    /\ NoBot

UpdateOrderStatus(order_id, status) ==
    /\ orders' = update_order_status(orders, order_id, status)
    /\ UNCHANGED <<users, counters, callVars, concVars, botVars>>

NextOrders ==
    \/ \E snap \in {[product_name |-> "n1", price |-> 150]} :
          AddToCart(1, "a", snap, 1)
    \/ \E q \in 0..MaxQty : UpdateCartItemQuantity(1, "a", q)
    \/ ClearCart(1)
    \/ get_user_cart(users, 1) # <<>> /\ CreateOrder(CartArgs(1))
    \/ \E order_id \in 1..MaxCalls, status \in OrderStatuses :
          UpdateOrderStatus(order_id, status)

SpecOrders == InitOrders /\ [][NextOrders]_vars

\* -------------------------------------------------------------- SpecPress
\* One press of a destructive button, followed inside admin_callback: the
\* del_cat_, del_prod_, remove_admin_ and remove_receiver_ branches end
\* with `await admin_callback(update, context)` on the update they were
\* called with. `last` keeps the handler that runs: the administrator, the
\* branch (`pid`), its argument (`had`), the number of invocations of
\* admin_callback so far (`size`), whether the handler has ended (`known`)
\* and how (`result`). The second query.answer of an invocation is a call
\* to Telegram for a query already answered and may raise.

\* The depth at which the interpreter raises RecursionError, scaled down.
MaxDepth == 3

Branches == {"del_cat_", "del_prod_", "remove_admin_", "remove_receiver_"}
Arguments(branch) ==
    IF branch = "del_cat_" THEN CategoryIds
    ELSE IF branch = "del_prod_" THEN ProductIds
    ELSE {1, 2}

Running == last.op = "admin_callback" /\ ~last.known

\* The body of a destructive branch up to its self call: the stores after
\* the db call, as <<admins, receivers, categories, products>>.
Destroyed(branch, arg) ==
    IF branch = "del_cat_"
    THEN <<admins, receivers,
           delete_one_category(delete_subcategories(categories, arg), arg),
           delete_products(products, arg)>>
    ELSE IF branch = "del_prod_"
    THEN <<admins, receivers, categories, delete_product(products, arg)>>
    ELSE IF branch = "remove_admin_"
    THEN <<remove_admin(admins, arg), receivers, categories, products>>
    ELSE <<admins, remove_notification_receiver(receivers, arg), categories,
           products>>

PressFrame == <<users, counters, orders, prev, concVars, conv, user_data,
                path, entered, admin_conv, admin_data>>

InitPress ==
    /\ users = <<>>
    /\ counters = <<>>
    /\ orders = <<>>
    /\ last = NoCall
    /\ prev = [appended |-> FALSE, cleared |-> 0]
    /\ tasks = <<>>
    /\ issued = <<>>
    /\ ofloor = <<>>
    /\ products = InitialProducts
    /\ categories = InitialCategories
    /\ conv = [u \in UserIds |-> END]
    /\ user_data = [u \in UserIds |-> NoUserData]
    /\ path = [u \in UserIds |-> <<>>]
    /\ entered = [u \in UserIds |-> NoEntered]
    /\ admin_conv = [u \in UserIds |-> END]
    /\ admin_data = [u \in UserIds |-> NoAdminData]
    /\ admins = <<Role(FirstAdmin, FirstAdmin), Role(2, FirstAdmin)>>
    /\ receivers = <<Role(FirstAdmin, FirstAdmin), Role(2, FirstAdmin)>>

\* One invocation of admin_callback on a destructive payload, from the
\* is_admin check to the self call.
Invocation(u, branch, arg, depth) ==
    IF ~is_admin(admins, u)
    THEN /\ last' = [Denied(u) EXCEPT !.known = TRUE]
         /\ UNCHANGED <<admins, receivers, categories, products>>
    ELSE IF branch = "remove_admin_" /\ arg = u
    THEN /\ last' = [NoCall EXCEPT !.op = "admin_callback", !.tid = u,
                                   !.pid = branch, !.had = {arg},
                                   !.size = depth, !.known = TRUE,
                                   !.result = <<"refused">>]
         /\ UNCHANGED <<admins, receivers, categories, products>>
    ELSE /\ admins' = Destroyed(branch, arg)[1]
         /\ receivers' = Destroyed(branch, arg)[2]
         /\ categories' = Destroyed(branch, arg)[3]
         /\ products' = Destroyed(branch, arg)[4]
         /\ last' = [NoCall EXCEPT !.op = "admin_callback", !.tid = u,
                                   !.pid = branch, !.had = {arg},
                                   !.size = depth]

\* The dispatcher hands a destructive button press to admin_callback.
Press(u, branch, arg) ==
    /\ ~Running
    /\ admin_conv[u] = END
    /\ Invocation(u, branch, arg, 1)
    /\ UNCHANGED PressFrame

\* The branch reaches `await admin_callback(update, context)`.
SelfCall ==
    /\ Running
    /\ last.size < MaxDepth
    /\ \E arg \in last.had : Invocation(last.tid, last.pid, arg, last.size + 1)
    /\ UNCHANGED PressFrame

\* The nesting reaches the recursion limit: RecursionError ends the handler.
RecursionError ==
    /\ Running
    /\ last.size = MaxDepth
    /\ last' = [last EXCEPT !.known = TRUE, !.result = <<"RecursionError">>]
    /\ UNCHANGED <<PressFrame, admins, receivers, categories, products>>

\* query.answer raises on the query that was answered before.
AnswerRaises ==
    /\ Running
    /\ last' = [last EXCEPT !.known = TRUE, !.result = <<"TelegramError">>]
    /\ UNCHANGED <<PressFrame, admins, receivers, categories, products>>

NextPress ==
    \/ \E u \in AdminUsers, branch \in Branches :
          \E arg \in Arguments(branch) : Press(u, branch, arg)
    \/ SelfCall
    \/ RecursionError
    \/ AnswerRaises

SpecPress == InitPress /\ [][NextPress]_vars

\* ------------------------------------------------------------ SpecConfirm
\* The confirm_order button pressed in any state. checkout_conv has a
\* handler for the payload in CONFIRM_ORDER only; its entry point, the
\* patterns of admin_conv and the three callback handlers main() adds
\* after them do not match it, so elsewhere the update has no handler.

\* A dispatch that hands the payload to confirm_order_callback in every
\* state.
ConfirmPress_anywhere(u) ==
    /\ Placed < MaxOrders
    /\ LET d == user_data[u]
           args == OrderArgs(u, d.customer_name, d.phone, d.checkout_cart,
                             d.delivery_type, d.delivery_cost, d.address,
                             d.comment)
       IN /\ counters' = get_next_order_number(counters)
          /\ orders' = Append(orders, Order(ReturnedSeq(counters'), args))
    /\ users' = clear_cart(users, u)
    /\ conv' = [conv EXCEPT ![u] = END]
    /\ path' = [path EXCEPT ![u] = <<>>]
    /\ entered' = [entered EXCEPT ![u] =
                     [NoEntered EXCEPT !.cancelled = entered[u].cancelled]]
    /\ UNCHANGED <<callVars, concVars, products, user_data, adminVars>>

ConfirmPress(u) ==
    IF conv[u] = CONFIRM_ORDER THEN ConfirmOrder(u) ELSE UNCHANGED vars

NextConfirm ==
    \/ \E u \in BotUsers : Start(u)
    \/ \E u \in BotUsers, pid \in BotProducts : AddCart(u, pid)
    \/ \E u \in BotUsers : CartClear(u)
    \/ \E u \in BotUsers : Checkout(u)
    \/ \E u \in BotUsers : CheckoutCancel(u)
    \/ \E u \in BotUsers : DeliveryPickup(u)
    \/ \E u \in BotUsers : DeliveryDelivery(u)
    \/ \E u \in BotUsers, text \in Addresses : ReceiveAddress(u, text)
    \/ \E u \in BotUsers, text \in Names : ReceiveName(u, text)
    \/ \E u \in BotUsers, phone \in Phones : ReceivePhone(u, phone)
    \/ \E u \in BotUsers, text \in Comments : ReceiveComment(u, text)
    \/ \E u \in BotUsers : SkipComment(u)
    \/ \E u \in BotUsers : CancelOrder(u)
    \/ \E u \in BotUsers : ConfirmPress(u)
    \/ \E u \in BotUsers : Cancel(u)

SpecConfirm == InitBot /\ [][NextConfirm]_vars

\* --------------------------------------------------------------- SpecDuel
\* remove_admin_ presses handled by tasks that interleave at the awaits of
\* admin_callback: between `await db.is_admin(user_id)` and
\* `await db.remove_admin(admin_id)` the other task can run. Each task
\* handles one press at a time; the self call at the end of the branch
\* repeats the same removal and is left out.

Duelists == {1, 2}
IdleDuel == [pc |-> "idle", user |-> 0, arg |-> 0]

InitDuel ==
    /\ users = <<>>
    /\ counters = <<>>
    /\ orders = <<>>
    /\ last = NoCall
    /\ prev = [appended |-> FALSE, cleared |-> 0]
    /\ tasks = [t \in Duelists |-> IdleDuel]
    /\ issued = <<>>
    /\ ofloor = <<>>
    /\ products = InitialProducts
    /\ categories = InitialCategories
    /\ conv = [u \in UserIds |-> END]
    /\ user_data = [u \in UserIds |-> NoUserData]
    /\ path = [u \in UserIds |-> <<>>]
    /\ entered = [u \in UserIds |-> NoEntered]
    /\ admin_conv = [u \in UserIds |-> END]
    /\ admin_data = [u \in UserIds |-> NoAdminData]
    /\ admins = <<Role(FirstAdmin, FirstAdmin), Role(2, FirstAdmin)>>
    /\ receivers = <<Role(FirstAdmin, FirstAdmin)>>

DuelFrame == <<users, counters, orders, prev, issued, ofloor, products,
               categories, conv, user_data, path, entered, admin_conv,
               admin_data, receivers>>

\* admin_callback up to the branch: the is_admin check and the refusal of
\* the administrator's own id.
CheckAdmin(t, u, arg) ==
    /\ tasks[t].pc # "checked"
    /\ IF ~is_admin(admins, u)
       THEN /\ last' = Denied(u)
            /\ tasks' = [tasks EXCEPT ![t] = [pc |-> "denied", user |-> u,
                                              arg |-> arg]]
       ELSE /\ UNCHANGED last
            /\ tasks' = [tasks EXCEPT ![t] =
                            [pc |-> IF arg = u THEN "refused" ELSE "checked",
                             user |-> u, arg |-> arg]]
    /\ UNCHANGED <<DuelFrame, admins>>

\* db.remove_admin(admin_id) of the branch.
RemoveChecked(t) ==
    /\ tasks[t].pc = "checked"
    /\ admins' = remove_admin(admins, tasks[t].arg)
    /\ tasks' = [tasks EXCEPT ![t].pc = "removed"]
    /\ UNCHANGED <<DuelFrame, last>>

\* database.py add_admin, called for an id that was removed.
Readmit(tid) ==
    /\ \A t \in Duelists : tasks[t].pc # "checked"
    /\ admins # <<>>
    /\ admins' = add_admin(admins, tid, admins[1].telegram_id)
    /\ UNCHANGED <<DuelFrame, last, tasks>>

NextDuel ==
    \/ \E t \in Duelists, u \in AdminUsers, arg \in RoleIds :
          CheckAdmin(t, u, arg)
    \/ \E t \in Duelists : RemoveChecked(t)
    \/ \E tid \in AdminUsers : Readmit(tid)

SpecDuel == InitDuel /\ [][NextDuel]_vars

\* ------------------------------------------------------------- SpecOrphan
\* Two administrators at the category buttons: subcat_parent_<id> followed
\* by the name of the subcategory, and del_cat_<id>. The buttons pressed are
\* those of categories stored at the press.

NewCategoryIds == {"c4", "c5"}

InitOrphan == InitPress

OrphanFrame == <<users, counters, orders, callVars, concVars, conv, user_data,
                 path, entered, admins, receivers>>

\* subcat_parent_<id>: admin_callback, an entry point only.
SubcatParent(u, parent_id) ==
    /\ admin_conv[u] = END
    /\ is_admin(admins, u)
    /\ parent_id \in DOMAIN categories
    /\ categories[parent_id].parent_id = None
    /\ admin_data' = [admin_data EXCEPT ![u].subcat_parent_id = parent_id]
    /\ admin_conv' = [admin_conv EXCEPT ![u] = ADMIN_ADD_SUBCATEGORY_NAME]
    /\ UNCHANGED <<OrphanFrame, categories, products>>

\* a text in ADMIN_ADD_SUBCATEGORY_NAME: admin_add_subcategory_handler.
AdminAddSubcategory(u) ==
    /\ ~CheckoutText(u)
    /\ admin_conv[u] = ADMIN_ADD_SUBCATEGORY_NAME
    /\ \E id \in NewCategoryIds : id \notin DOMAIN categories
    /\ LET id == CHOOSE i \in NewCategoryIds : i \notin DOMAIN categories
       IN categories' = create_category(categories, id,
                                        admin_data[u].subcat_parent_id)
    /\ admin_conv' = [admin_conv EXCEPT ![u] = END]
    /\ UNCHANGED <<OrphanFrame, admin_data, products>>

\* del_cat_<id>: admin_callback, an entry point only; db.delete_category,
\* then the handler calls itself with the same payload and returns no state.
DelCatCallback(u, category_id) ==
    /\ admin_conv[u] = END
    /\ is_admin(admins, u)
    /\ category_id \in DOMAIN categories
    /\ categories' = delete_one_category(
                        delete_subcategories(categories, category_id),
                        category_id)
    /\ products' = delete_products(products, category_id)
    /\ UNCHANGED <<OrphanFrame, admin_conv, admin_data>>

NextOrphan ==
    \/ \E u \in AdminUsers, parent_id \in CategoryIds \cup NewCategoryIds :
          SubcatParent(u, parent_id)
    \/ \E u \in AdminUsers : AdminAddSubcategory(u)
    \/ \E u \in AdminUsers, category_id \in CategoryIds \cup NewCategoryIds :
          DelCatCallback(u, category_id)
    \/ \E u \in AdminUsers : AdminCancel(u)

SpecOrphan == InitOrphan /\ [][NextOrphan]_vars

\* --------------------------------------------------------------- SpecPair
\* Two customers at the bot, their updates handled one after the other in
\* any order: /start, the product and cart buttons, the checkout
\* conversation with pickup, and /cancel.

PairUsers == UserIds

\* add_cart_<id> pressed by a customer whose cart is empty.
PairAdd(u, pid) ==
    /\ get_user_cart(users, u) = <<>>
    /\ AddCart(u, pid)

\* confirm_order of either customer, while the store has room for an order.
PairConfirm(u) ==
    /\ Len(orders) < MaxOrders
    /\ ConfirmOrder(u)

\* The updates of customer u.
CustomerEvent(u) ==
    \/ Start(u)
    \/ \E pid \in BotProducts : PairAdd(u, pid)
    \/ \E pid \in BotProducts : CartRemove(u, pid)
    \/ CartClear(u)
    \/ Checkout(u)
    \/ CheckoutCancel(u)
    \/ DeliveryPickup(u)
    \/ \E text \in Names : ReceiveName(u, text)
    \/ \E phone \in Phones : ReceivePhone(u, phone)
    \/ SkipComment(u)
    \/ CancelOrder(u)
    \/ PairConfirm(u)
    \/ Cancel(u)

NextPair == \E u \in PairUsers : CustomerEvent(u)

SpecPair == InitBot /\ [][NextPair]_vars

\* ------------------------------------------- properties: SpecSeq, SpecConc

\* C1: whatever the interleaving of concurrent get_next_order_number calls,
\* no two of them return the same value, and each returns a value greater
\* than every value returned by a call that had completed when it started.
C1_UniqueAndIncreasing ==
    /\ \A i, j \in 1..Len(issued) :
          issued[i].value = issued[j].value => i = j
    /\ \A t, u \in TaskIds :
          (tasks[t].pc = "got" /\ tasks[u].pc = "got" /\ t # u)
             => tasks[t].number # tasks[u].number
    /\ \A i \in 1..Len(issued), t \in TaskIds :
          tasks[t].pc = "got" => tasks[t].number # issued[i].value
    /\ \A i \in 1..Len(issued) : issued[i].value > issued[i].floor

\* Three calls have overlapped: the one that returned first got the largest
\* number.
C1_Witness ==
    /\ Len(issued) = 3
    /\ issued[1].value > issued[2].value
    /\ issued[2].value > issued[3].value
    /\ \A i \in 1..3 : issued[i].floor = 0

\* C2: called one after the other on a store without counter, the first
\* get_next_order_number returns 1 and the k-th returns k, and of two
\* create_order calls with no other call in between the second gets the
\* order_number of the first plus 1.
C2_Consecutive ==
    /\ [](\A k \in 1..Len(issued) : issued[k].value = k)
    /\ [][(last.op = "create_order" /\ last'.op = "create_order")
          => /\ Len(orders') = Len(orders) + 1
             /\ orders'[Len(orders')].order_number =
                   orders[Len(orders)].order_number + 1]_vars

\* Two orders created back to back after one direct call: numbers 2 and 3.
C2_Witness ==
    /\ Len(issued) = 3
    /\ Len(orders) = 2
    /\ last.op = "create_order"
    /\ orders[1].order_number = 2
    /\ orders[2].order_number = 3

\* C3 as stated: whenever order A is inserted before order B,
\* A.order_number < B.order_number, also when the create_order calls
\* interleave between fetching the number and inserting the order.
C3_InsertionOrder ==
    \A i, j \in 1..Len(orders) :
       i < j => orders[i].order_number < orders[j].order_number

\* C3 as the code has it: order_number is unique among the stored orders, and
\* the order_number of an order is greater than the order_number of every
\* order that was stored when its create_order call started.
C3_UniqueOrderNumbers ==
    /\ \A i, j \in 1..Len(orders) :
          orders[i].order_number = orders[j].order_number => i = j
    /\ \A i \in 1..Len(orders) : orders[i].order_number > ofloor[i]
    /\ Len(ofloor) = Len(orders)

\* Two create_order calls have overlapped and the order with the larger
\* number was inserted first.
C3_Witness ==
    /\ Len(orders) = 2
    /\ orders[1].order_number > orders[2].order_number
    /\ orders[1].user_telegram_id # orders[2].user_telegram_id

\* ------------------------------------------------------ properties: SpecDb

\* C4: for a stored user, add_to_cart(p, q1) that appends the line of p,
\* followed by add_to_cart(p, q2) with any name and price, leaves exactly one
\* line of p, with quantity q1 + q2 and the name and price of the first call.
C4_AddTwice ==
    [][(/\ Appended(last)
        /\ last'.op = "add_to_cart"
        /\ last'.tid = last.tid
        /\ last'.pid = last.pid)
       => LET cart == get_user_cart(users', last.tid)
              at == {i \in 1..Len(cart) : cart[i].product_id = last.pid}
          IN /\ Cardinality(at) = 1
             /\ \A i \in at :
                   /\ cart[i].quantity = last.quantity + last'.quantity
                   /\ cart[i].product_name = last.snap.product_name
                   /\ cart[i].price = last.snap.price]_vars

\* The second add has passed another name and price than the first and the
\* line shows the sum and the first snapshot.
C4_Witness ==
    /\ prev.appended
    /\ last.op = "add_to_cart"
    /\ \E l \in last.had :
          /\ l.product_name # last.snap.product_name
          /\ l.price # last.snap.price
          /\ LineOf(users, last.tid, last.pid) =
                {[l EXCEPT !.quantity = l.quantity + last.quantity]}

\* C5: every stored cart holds at most one line per product_id.
C5_OneLinePerProduct ==
    \A tid \in DOMAIN users :
       \A i, j \in 1..Len(users[tid].cart) :
          users[tid].cart[i].product_id = users[tid].cart[j].product_id => i = j

\* An add_to_cart that found the line of its product in a cart of two lines.
C5_Witness ==
    /\ last.op = "add_to_cart"
    /\ last.had # {}
    /\ last.size = 2
    /\ Len(get_user_cart(users, last.tid)) = 2

\* C7: update_cart_item_quantity(p, 0) leaves no line of p; the cart is one
\* line shorter if p was there and as long as before if not, and the other
\* lines are the same, in the same order.
C7_SetZeroRemoves ==
    [][(last'.op = "update_cart_item_quantity" /\ last'.quantity = 0)
       => LET tid == last'.tid
              pid == last'.pid
              old == get_user_cart(users, tid)
              new == get_user_cart(users', tid)
          IN /\ LineOf(users', tid, pid) = {}
             /\ \A i \in 1..Len(new) : new[i].product_id # pid
             /\ Len(new) = Len(old) - Cardinality(LineOf(users, tid, pid))
             /\ new = OtherLines(old, pid)
             /\ DOMAIN users' = DOMAIN users
             /\ \A t \in DOMAIN users : t # tid => users'[t] = users[t]]_vars

\* A line removed from a cart of two lines, the other line still there.
C7_Witness ==
    /\ last.op = "update_cart_item_quantity"
    /\ last.quantity = 0
    /\ last.had # {}
    /\ last.size = 2
    /\ Len(get_user_cart(users, last.tid)) = 1
    /\ LineOf(users, last.tid, last.pid) = {}

\* C8: update_cart_item_quantity(p, q) with q > 0 creates no line: without a
\* line of p the stored state is unchanged, with one its quantity becomes q
\* and its name and price and every other line stay.
C8_SetPositive ==
    [][(last'.op = "update_cart_item_quantity" /\ last'.quantity > 0)
       => LET tid == last'.tid
              pid == last'.pid
              q == last'.quantity
              old == get_user_cart(users, tid)
              new == get_user_cart(users', tid)
          IN /\ LineOf(users, tid, pid) = {} => users' = users
             /\ Len(new) = Len(old)
             /\ \A i \in 1..Len(old) :
                   new[i] = IF old[i].product_id = pid
                            THEN [old[i] EXCEPT !.quantity = q]
                            ELSE old[i]
             /\ DOMAIN users' = DOMAIN users
             /\ \A t \in DOMAIN users : t # tid => users'[t] = users[t]]_vars

\* A quantity set on a line whose quantity was another one, next to a second
\* line.
C8_Witness ==
    /\ last.op = "update_cart_item_quantity"
    /\ last.quantity > 0
    /\ last.size = 2
    /\ \E l \in last.had :
          /\ l.quantity # last.quantity
          /\ LineOf(users, last.tid, last.pid) =
                {[l EXCEPT !.quantity = last.quantity]}

\* C9: right after clear_cart get_user_cart returns the empty list, and it
\* returns the empty list for an id without a user record and stores nothing.
C9_GetAfterClear ==
    [][/\ (last.op = "clear_cart" /\ last'.op = "get_user_cart"
           /\ last'.tid = last.tid)
          => last'.result = <<>>
       /\ last'.op = "clear_cart"
          => get_user_cart(users', last'.tid) = <<>>
       /\ (last'.op = "get_user_cart" /\ last'.tid \notin DOMAIN users)
          => (last'.result = <<>> /\ users' = users)]_vars

\* get_user_cart has returned the empty list right after the clear_cart of a
\* cart that held two lines.
C9_Witness ==
    /\ last.op = "get_user_cart"
    /\ last.known
    /\ last.result = <<>>
    /\ prev.cleared = 2

\* C36: add_to_cart, update_cart_item_quantity and clear_cart for a
\* telegram_id without a user record change nothing that is stored: no user
\* record appears and get_user_cart of the id is still empty.
C36_UnknownUserUntouched ==
    [][\A tid \in UserIds :
          (/\ tid \notin DOMAIN users
           /\ last'.tid = tid
           /\ last'.op \in {"add_to_cart", "update_cart_item_quantity",
                            "clear_cart"})
          => /\ users' = users
             /\ counters' = counters
             /\ orders' = orders
             /\ get_user_cart(users', tid) = <<>>]_vars

\* add_to_cart was called for user 2, who has no record, while user 1 has a
\* record with a cart line; user 2 still has no record.
C36_Witness ==
    /\ last.op = "add_to_cart"
    /\ last.tid = 2
    /\ ~last.known
    /\ 2 \notin DOMAIN users
    /\ 1 \in DOMAIN users
    /\ get_user_cart(users, 1) # <<>>

\* ----------------------------------------------------- properties: SpecBot

\* C6: in every state the bot events lead to, every line of every stored cart
\* has a quantity of at least 1; a cart_minus on a line of quantity 1 removes
\* the line.
C6_QuantityAtLeastOne ==
    \A tid \in DOMAIN users :
       \A i \in 1..Len(users[tid].cart) : users[tid].cart[i].quantity >= 1

\* cart_minus has been pressed on a line of quantity 1 and the line is gone.
C6_Witness ==
    /\ last.op = "cart_minus"
    /\ \E l \in last.had : l.quantity = 1
    /\ LineOf(users, last.tid, last.pid) = {}
    /\ last.tid \in DOMAIN users

\* The updates checkout_conv handles from the checkout button to the
\* confirmation, each with the state it leads to: with or without the
\* address, with a comment or without.
Flows ==
    {<<[ev |-> "checkout", to |-> WAITING_DELIVERY_TYPE]>> \o choice \o
     <<[ev |-> "name", to |-> WAITING_PHONE],
       [ev |-> "phone", to |-> WAITING_COMMENT],
       [ev |-> c, to |-> CONFIRM_ORDER]>> :
        choice \in {<<[ev |-> "delivery_pickup", to |-> WAITING_NAME]>>,
                    <<[ev |-> "delivery_delivery", to |-> WAITING_ADDRESS],
                      [ev |-> "address", to |-> WAITING_NAME]>>},
        c \in {"comment", "skip_comment"}}

IsPrefix(s, t) == Len(s) <= Len(t) /\ s = SubSeq(t, 1, Len(s))

\* C10: a user in a state of checkout_conv has come to it along
\* WAITING_DELIVERY_TYPE, (WAITING_ADDRESS,) WAITING_NAME, WAITING_PHONE,
\* WAITING_COMMENT, CONFIRM_ORDER, one state per update and none twice, with
\* WAITING_ADDRESS exactly after delivery_delivery; an update moves the user
\* one state on or back to no state; and an order is stored only by an update
\* that finds its user in CONFIRM_ORDER after a whole flow and leaves the user
\* in no state, the order being a delivery exactly when the flow went through
\* WAITING_ADDRESS.
C10_CheckoutFlow ==
    /\ [](\A u \in UserIds :
             IF conv[u] = END THEN path[u] = <<>>
             ELSE /\ path[u] # <<>>
                  /\ \E f \in Flows : IsPrefix(path[u], f)
                  /\ conv[u] = path[u][Len(path[u])].to)
    /\ [][\A u \in UserIds :
             conv'[u] # conv[u] =>
                \/ conv'[u] = END
                \/ /\ conv[u] = END
                   /\ conv'[u] = WAITING_DELIVERY_TYPE
                \/ /\ conv[u] # END
                   /\ Len(path'[u]) = Len(path[u]) + 1
                   /\ IsPrefix(path[u], path'[u])]_vars
    /\ [][orders' # orders =>
             /\ Len(orders') = Len(orders) + 1
             /\ SubSeq(orders', 1, Len(orders)) = orders
             /\ LET o == orders'[Len(orders')]
                    u == o.user_telegram_id
                IN /\ u \in UserIds
                   /\ conv[u] = CONFIRM_ORDER
                   /\ path[u] \in Flows
                   /\ conv'[u] = END
                   /\ o.delivery_type = "delivery"
                        <=> \E i \in 1..Len(path[u]) :
                               path[u][i].to = WAITING_ADDRESS
                   /\ o.delivery_type \in {"pickup", "delivery"}]_vars

\* An order has been stored at the end of a flow that went through
\* WAITING_ADDRESS, and its user is in a second flow, at the name after a
\* pickup.
C10_Witness ==
    /\ Len(orders) >= 1
    /\ orders[1].delivery_type = "delivery"
    /\ orders[1].address \in Addresses
    /\ \E u \in BotUsers :
          /\ conv[u] = WAITING_PHONE
          /\ Len(path[u]) = 3
          /\ path[u][2].ev = "delivery_pickup"

\* The user whose update stores an order in this step: the one that leaves
\* CONFIRM_ORDER.
Confirming == {u \in UserIds : conv[u] = CONFIRM_ORDER /\ conv'[u] = END}

\* C11: the checkout button stores the cart of that moment in the context of
\* the user, no update handled while the user is in a state of checkout_conv
\* changes that snapshot, and the order confirm_order stores has the snapshot
\* as its items, the sum of quantity * price over them as its total (without
\* the delivery cost) and the confirming user as its user_telegram_id.
C11_OrderFromSnapshot ==
    /\ [][\A u \in UserIds :
             (conv[u] = END /\ conv'[u] # END) =>
                /\ user_data'[u].checkout_cart = get_user_cart(users, u)
                /\ user_data'[u].checkout_cart # <<>>]_vars
    /\ [][\A u \in UserIds :
             conv[u] # END =>
                user_data'[u].checkout_cart = user_data[u].checkout_cart]_vars
    /\ [][orders' # orders =>
             LET o == orders'[Len(orders')] IN
             /\ Confirming = {o.user_telegram_id}
             /\ o.items = user_data[o.user_telegram_id].checkout_cart
             /\ o.total = Total(o.items)
             /\ o.total > 0]_vars

\* An order of one piece is stored although the last cart button, pressed
\* during the checkout, had raised the line to two pieces; confirm_order has
\* emptied the cart since.
C11_Witness ==
    /\ Len(orders) = 1
    /\ Len(orders[1].items) = 1
    /\ orders[1].items[1].quantity = 1
    /\ orders[1].total = orders[1].items[1].price
    /\ orders[1].delivery_type = "delivery"
    /\ last.op = "cart_plus"
    /\ \E l \in last.had : l.quantity = 1
    /\ last.tid = orders[1].user_telegram_id
    /\ last.tid \in DOMAIN users
    /\ get_user_cart(users, last.tid) = <<>>

\* C14: checkout_cancel, cancel_order and /cancel take the user out of the
\* checkout, store no order, leave the counter of the order numbers and every
\* stored cart as they are; the counter moves only in a step that stores an
\* order.
C14_CancelKeeps ==
    /\ [][(\E u \in UserIds : CheckoutCancel(u) \/ CancelOrder(u) \/ Cancel(u))
           => /\ orders' = orders
              /\ counters' = counters
              /\ users' = users
              /\ \E u \in UserIds : conv[u] # END /\ conv'[u] = END]_vars
    /\ [][counters' # counters => Len(orders') = Len(orders) + 1]_vars

\* A checkout that had reached the comment has ended without an order: none
\* is stored, there is no counter, and the cart still holds what the order
\* would have held.
C14_Witness ==
    /\ orders = <<>>
    /\ counters = <<>>
    /\ \E u \in BotUsers :
          /\ conv[u] = END
          /\ user_data[u].comment \in Comments
          /\ user_data[u].checkout_cart # <<>>
          /\ u \in DOMAIN users
          /\ users[u].cart = user_data[u].checkout_cart

\* The keys of context.user_data the checkout writes.
CheckoutKeys ==
    {"checkout_cart", "delivery_type", "delivery_cost", "address",
     "customer_name", "phone", "comment"}

C33_NoEmptyOrder ==
    /\ [](\A i \in 1..Len(orders) :
             /\ orders[i].items # <<>>
             /\ \A j \in 1..Len(orders[i].items) :
                   orders[i].items[j].quantity >= 1)
    /\ [][\A u \in BotUsers :
             (conv[u] = END /\ get_user_cart(users, u) = <<>> /\ Checkout(u))
             => /\ conv'[u] = END
                /\ user_data' = user_data]_vars

\* An order with an item is stored; the customer is outside the checkout
\* with an empty cart, where the checkout button starts nothing.
C33_Witness ==
    /\ Len(orders) = 1
    /\ orders[1].items # <<>>
    /\ 1 \in DOMAIN users
    /\ get_user_cart(users, 1) = <<>>
    /\ conv[1] = END
    /\ user_data[1].checkout_cart = orders[1].items

\* C34: at a confirm, every line of the customer's stored cart, which the
\* handler clears, is an item of the order it stores, with the same
\* quantity.
C34_ClearedLinesOrdered ==
    [][\A u \in BotUsers :
          ConfirmOrder(u)
          => LET cart == get_user_cart(users, u)
                 items == orders'[Len(orders')].items
             IN \A i \in 1..Len(cart) :
                   \E j \in 1..Len(items) :
                      /\ items[j].product_id = cart[i].product_id
                      /\ items[j].quantity = cart[i].quantity]_vars

\* ---------------------------------------------------- properties: SpecFlow

\* C12: an update that takes a user out of CONFIRM_ORDER either stores nothing
\* (cancel_order, /cancel) or is the confirm action, and then it has stored
\* exactly one order, of that user, with the order_number of the order stored
\* before it plus 1, the stored cart of the user is empty and the user is in
\* no state of checkout_conv.
C12_AfterConfirm ==
    [][\A u \in UserIds :
          (conv[u] = CONFIRM_ORDER /\ conv'[u] # CONFIRM_ORDER) =>
             \/ orders' = orders /\ counters' = counters
             \/ /\ Len(orders') = Len(orders) + 1
                /\ SubSeq(orders', 1, Len(orders)) = orders
                /\ orders'[Len(orders')].user_telegram_id = u
                /\ orders'[Len(orders')].order_number =
                      IF orders = <<>> THEN 1
                      ELSE orders[Len(orders)].order_number + 1
                /\ get_user_cart(users', u) = <<>>
                /\ conv'[u] = END]_vars

\* The customer has confirmed with a cart that was not empty: the order is
\* the second of the store and has number 2, the cart is empty, the customer
\* in no state.
C12_Witness ==
    /\ Len(orders) = 2
    /\ orders[1] = EarlierOrder
    /\ orders[2].order_number = 2
    /\ \E u \in BotUsers :
          /\ orders[2].user_telegram_id = u
          /\ u \in DOMAIN users
          /\ users[u].cart = <<>>
          /\ conv[u] = END
          /\ last.op = "add_cart"
          /\ last.tid = u

\* C13: every stored order is a pickup or a delivery; it is a pickup exactly
\* when its delivery_cost is 0 and its address the pickup address, a delivery
\* exactly when its delivery_cost is DELIVERY_COST and its address a text
\* that was typed; and the order an update stores has the type of the button
\* pressed in its checkout and, for a delivery, the address typed in
\* WAITING_ADDRESS of that checkout.
C13_DeliveryFields ==
    /\ [](\A i \in 1..Len(orders) :
             LET o == orders[i] IN
             /\ o.delivery_type \in {"pickup", "delivery"}
             /\ o.delivery_type = "pickup"
                  <=> (o.delivery_cost = 0 /\ o.address = PICKUP_ADDRESS)
             /\ o.delivery_type = "delivery"
                  <=> (o.delivery_cost = DELIVERY_COST
                       /\ o.address \in FlowAddresses))
    /\ [][orders' # orders =>
             LET o == orders'[Len(orders')]
                 e == entered[o.user_telegram_id]
             IN /\ o.delivery_type = e.delivery
                /\ o.delivery_type = "delivery" => o.address = e.address
                /\ o.delivery_type = "pickup" => e.address = None]_vars

\* A delivery to the second address is stored, and the customer has chosen
\* pickup in the checkout that followed.
C13_Witness ==
    /\ Len(orders) = 2
    /\ orders[2].delivery_type = "delivery"
    /\ orders[2].delivery_cost = DELIVERY_COST
    /\ orders[2].address = "lane"
    /\ \E u \in BotUsers :
          /\ conv[u] = WAITING_NAME
          /\ user_data[u].address = PICKUP_ADDRESS
          /\ user_data[u].delivery_cost = 0

\* C17: the order of a checkout that follows a cancelled checkout is made
\* of what the new checkout captured: the items are the cart stored when
\* the new checkout was entered, the delivery type is the button pressed in
\* it, cost and address go with that type (0 and the pickup address, or the
\* delivery cost and the address typed in it), and name, phone and comment
\* are the ones given in it (no comment when the comment was skipped),
\* whatever the cancelled checkout had left in the context.
C17_FreshEntry ==
    [][\A u \in BotUsers :
          (orders' # orders /\ conv[u] = CONFIRM_ORDER /\ entered[u].cancelled)
          => LET o == orders'[Len(orders')]
                 e == entered[u]
             IN /\ o.user_telegram_id = u
                /\ o.items = e.cart
                /\ o.delivery_type = e.delivery
                /\ o.delivery_cost =
                       (IF e.delivery = "pickup" THEN 0 ELSE DELIVERY_COST)
                /\ o.address =
                       (IF e.delivery = "pickup" THEN PICKUP_ADDRESS
                                                ELSE e.address)
                /\ o.user_name = e.name
                /\ o.phone = e.phone
                /\ o.comment = e.comment]_vars

\* The customer cancelled a checkout and then placed an order: the cart is
\* empty, and in SpecFlow only confirm_order empties it, so no checkout was
\* entered, and none cancelled, after the order. The order is a pickup under
\* the first name, while addresses and the second name were there to be left
\* behind by the cancelled checkout.
C17_Witness ==
    /\ Len(orders) = 2
    /\ \E u \in BotUsers :
          /\ orders[2].user_telegram_id = u
          /\ entered[u].cancelled
          /\ get_user_cart(users, u) = <<>>
          /\ conv[u] = END
    /\ orders[2].delivery_type = "pickup"
    /\ orders[2].user_name = "name"

\* C29: get_or_create_user for an id that is not stored adds one record with
\* an empty cart and no phone and leaves the other records alone; for an id
\* that is stored it leaves the store as it is, cart and phone included, so
\* calling it again after a call changes nothing.
C29_GetOrCreateIdempotent ==
    \A tid \in UserIds :
        LET once == get_or_create_user(users, tid)
            twice == get_or_create_user(once, tid)
        IN /\ twice = once
           /\ tid \in DOMAIN users => once = users
           /\ tid \notin DOMAIN users =>
                 /\ DOMAIN once = DOMAIN users \cup {tid}
                 /\ once[tid] = [cart |-> <<>>, phone |-> None]
                 /\ \A t \in DOMAIN users : once[t] = users[t]

\* A customer whom get_or_create_user has stored and who has a phone and a
\* line in the cart by now: what a later call finds.
C29_Witness ==
    \E u \in BotUsers :
        /\ u \in DOMAIN users
        /\ users[u].phone # None
        /\ get_user_cart(users, u) # <<>>

\* --------------------------------------------------- properties: SpecAdmin

\* C15: a /cancel of a user who is in a state of checkout_conv or of
\* admin_conv leaves the user in no state of either conversation.
C15_CancelLeavesIdle ==
    [][\A u \in AdminUsers :
          (Cancel(u) \/ AdminCancel(u))
          => conv'[u] = END /\ admin_conv'[u] = END]_vars

\* C18: no user is in a state of checkout_conv and in a state of admin_conv
\* at the same time.
C18_OneFlow ==
    \A u \in AdminUsers : ~(conv[u] # END /\ admin_conv[u] # END)

\* C19: the entry event of a flow sent by a user who is in a state of one of
\* the conversations is accepted and replaces the flow in progress. The
\* checkout button of a user with a cart leads to WAITING_DELIVERY_TYPE with
\* the stored cart as snapshot, and leaves the user in no state of
\* admin_conv with no admin key in the context; the admin_add_admin and
\* admin_add_receiver buttons of an administrator lead to their states, and
\* leave the user in no state of checkout_conv with no checkout key in the
\* context.
C19_EntryOverrides ==
    [][\A u \in BotUsers :
          (conv[u] # END \/ admin_conv[u] # END)
          => /\ (Checkout(u) /\ get_user_cart(users, u) # <<>>)
                => /\ conv'[u] = WAITING_DELIVERY_TYPE
                   /\ user_data'[u].checkout_cart = get_user_cart(users, u)
                   /\ admin_conv'[u] = END
                   /\ admin_data'[u] = NoAdminData
             /\ \A to \in {ADMIN_ADD_ADMIN, ADMIN_ADD_RECEIVER} :
                   (AdminOpen(u, to) /\ is_admin(admins, u))
                   => /\ admin_conv'[u] = to
                      /\ conv'[u] = END
                      /\ \A k \in CheckoutKeys :
                            user_data'[u][k] = NoUserData[k]]_vars

\* C20: a text that is not a number, typed in ADMIN_ADD_ADMIN, in
\* ADMIN_ADD_RECEIVER, in ADMIN_ADD_PRODUCT_PRICE or in
\* ADMIN_EDIT_PRODUCT_VALUE when the field is the price, leaves the user in
\* the same state of admin_conv and changes neither the context nor the
\* admins, the receivers or the products.
C20_InvalidNumberStays ==
    [][\A u \in AdminUsers, text \in IdTexts \cup AdminTexts :
          ( /\ ValueError(text)
            /\ \/ AdminAddAdmin(u, text)
               \/ AdminAddReceiver(u, text)
               \/ AdminAddProductPrice(u, text)
               \/ /\ admin_data[u].edit_product_field = "price"
                  /\ AdminEditProductValue(u, text) )
          => /\ admin_conv'[u] = admin_conv[u]
             /\ admin_data' = admin_data
             /\ user_data' = user_data
             /\ admins' = admins
             /\ receivers' = receivers
             /\ products' = products]_vars

\* --------------------------------------------------- properties: SpecRoles

\* The number of records of `tid` in a collection.
Records(rs, tid) == Cardinality({i \in 1..Len(rs) : rs[i].telegram_id = tid})

\* C22: add_admin for an id that is stored returns None and leaves the
\* admins as they are, and so does add_notification_receiver with the
\* receivers; whatever adds and removes are called one after the other,
\* neither collection ever holds two records of one telegram id.
C22_DuplicateIsNoOp ==
    /\ [](\A tid \in RoleIds :
             Records(admins, tid) <= 1 /\ Records(receivers, tid) <= 1)
    /\ [][\A tid \in RoleIds :
             /\ (AddAdmin(tid, FirstAdmin) /\ Records(admins, tid) > 0)
                => admins' = admins /\ last'.result = <<>>
             /\ (AddNotificationReceiver(tid, FirstAdmin)
                    /\ Records(receivers, tid) > 0)
                => receivers' = receivers /\ last'.result = <<>>]_vars

\* add_admin has just returned None for an id that was added before and is
\* stored once, behind the first administrator; the receivers hold a second
\* id as well.
C22_Witness ==
    /\ last.op = "add_admin"
    /\ last.result = <<>>
    /\ last.tid = 7
    /\ Records(admins, 7) = 1
    /\ Len(admins) = 2
    /\ admins[2].telegram_id = 7
    /\ Records(receivers, 2) = 1

\* ---------------------------------------------------- properties: SpecRace

\* The user records of `tid`: the one `users` keeps and those inserted
\* behind it.
UserRecords(tid) ==
    Cardinality({t \in DOMAIN tasks :
                    /\ tasks[t].op = "get_or_create_user"
                    /\ tasks[t].tid = tid
                    /\ tasks[t].pc = "done"
                    /\ ~tasks[t].found})
    + (IF tid \in DOMAIN users /\ tid \notin NewUserIds THEN 1 ELSE 0)

\* C23: when add_admin, add_notification_receiver or get_or_create_user
\* calls for one telegram id are handled concurrently, the admins, the
\* receivers and the users never hold two records of that id.
C23_NoDuplicateRecords ==
    \A tid \in NewRoleIds \cup NewUserIds \cup {1} :
        /\ Records(admins, tid) <= 1
        /\ Records(receivers, tid) <= 1
        /\ UserRecords(tid) <= 1

\* C24: the update_one of add_to_cart and of update_cart_item_quantity
\* stores the cart the call read, changed by that call alone, whatever the
\* store holds by then: the line another call has added or changed between
\* the read and the write is gone, or back to what it was.
C24_WriteReplacesCart ==
    [][\A t \in Racers :
          (tasks[t].pc = "write" /\ tasks'[t].pc = "done"
             /\ tasks[t].op \in {"add_to_cart", "update_cart_item_quantity"})
          => LET k == tasks[t]
                 pname == InitialProducts[k.pid].name
                 price == InitialProducts[k.pid].price
             IN get_user_cart(users', k.tid) =
                   IF k.op = "add_to_cart"
                   THEN AddedCart(k.cart, k.pid, pname, k.quantity, price)
                   ELSE UpdatedCart(k.cart, k.pid, k.quantity)]_vars

\* Two add_to_cart of one product, quantity 1 each, both read the empty
\* cart and both have written: the cart holds the product once, quantity 1.
C24_Witness ==
    /\ \A t \in Racers :
          /\ tasks[t].pc = "done"
          /\ tasks[t].op = "add_to_cart"
          /\ tasks[t].pid = "a"
          /\ tasks[t].quantity = 1
          /\ tasks[t].cart = <<>>
    /\ get_user_cart(users, 1) = <<Line("a", 1)>>

\* ---------------------------------------------------- properties: SpecAccess

\* An update that reaches admin_command or admin_callback as an entry point.
EntryEvent(u) ==
    \/ AdminCommand(u)
    \/ AdminMenu(u)
    \/ \E to \in {ADMIN_ADD_ADMIN, ADMIN_ADD_RECEIVER} : AdminOpen(u, to)
    \/ \E tid \in AdminUsers : RemoveAdminCallback(u, tid)
    \/ \E pid \in BotProducts : DelProdCallback(u, pid)

\* C21: /admin or an admin button from a user who is not in admins and whose
\* session is in no admin state is answered with the denial; the checkout
\* state and the admin state of the user stay as they are, and no admin,
\* receiver, category or product record changes.
C21_NonAdminDenied ==
    [][\A u \in AdminUsers :
          (~is_admin(admins, u) /\ admin_conv[u] = END /\ EntryEvent(u))
          => /\ last' = Denied(u)
             /\ conv' = conv
             /\ user_data' = user_data
             /\ admin_conv' = admin_conv
             /\ admin_data' = admin_data
             /\ admins' = admins
             /\ receivers' = receivers
             /\ categories' = categories
             /\ products' = products]_vars

\* The customer was denied while typing the name of an order, and is still
\* there; the administrator has deleted a product in the meantime.
C21_Witness ==
    /\ ~is_admin(admins, 1)
    /\ last = [NoCall EXCEPT !.op = "denied", !.tid = 1,
                             !.result = <<WAITING_NAME>>]
    /\ conv[1] = WAITING_NAME
    /\ admin_conv[1] = END
    /\ "a" \notin DOMAIN products

\* A text handled in a leaf state of admin_conv.
LeafInput(u) ==
    \E text \in IdTexts : AdminAddAdmin(u, text) \/ AdminAddReceiver(u, text)

\* C30: a text handled in a leaf state changes admins or receivers only
\* while its sender is in admins.
C30_MutationByAdminOnly ==
    [][\A u \in AdminUsers :
          (LeafInput(u) /\ (admins' # admins \/ receivers' # receivers))
          => is_admin(admins, u)]_vars

\* --------------------------------------------------- properties: SpecFanout

\* The call recorded is one that returned after one send_message per
\* document of docs, in the order of docs.
AttemptedAll(call, docs) ==
    /\ call.known
    /\ Len(call.result) = Len(docs)
    /\ \A i \in 1..Len(docs) : call.result[i] = docs[i].telegram_id

\* C25: notify_new_order and admin_broadcast_handler call send_message once
\* for every recipient their query returned, in order, whichever of the
\* deliveries fail, and return without raising.
C25_EveryRecipientAttempted ==
    [][\A u \in UserIds :
          /\ (\E fails \in SUBSET (1..Len(receivers)) :
                 ConfirmOrderNotify(u, fails))
             => AttemptedAll(last', get_notification_receivers(receivers))
          /\ (\E fails \in SUBSET (1..Cardinality(DOMAIN users)) :
                 AdminBroadcast(u, fails))
             => AttemptedAll(last', get_all_subscribers(users))]_vars

\* An order was notified to two receivers: the delivery to the first failed
\* and the second was attempted all the same.
C25_Witness ==
    /\ last.op = "notify"
    /\ last.had = {1}
    /\ Len(last.result) = 2
    /\ last.result[1] # last.result[2]
    /\ Len(orders) = 1

\* C26: the count a broadcast reports is the number of subscribers whose
\* delivery did not fail; it lies between 0 and the number of subscribers
\* and equals that number exactly when no delivery failed.
C26_SuccessCount ==
    [][\A u \in UserIds :
          (\E fails \in SUBSET (1..Cardinality(DOMAIN users)) :
              AdminBroadcast(u, fails))
          => LET n == Len(get_all_subscribers(users))
                 delivered == {i \in 1..n : i \notin last'.had}
             IN /\ last'.size = Cardinality(delivered)
                /\ last'.quantity = n
                /\ 0 <= last'.size /\ last'.size <= n
                /\ (last'.size = n) <=> (last'.had = {})]_vars

\* A broadcast to two subscribers of which one delivery failed reported 1.
C26_Witness ==
    /\ last.op = "broadcast"
    /\ last.quantity = 2
    /\ Cardinality(last.had) = 1
    /\ last.size = 1

\* ------------------------------------------------------ properties: SpecCat

\* The ids of the categories of cs whose parent_id is c.
Children(cs, c) == {x \in DOMAIN cs : cs[x].parent_id = c}

\* The ids of the products of ps whose category_id is c.
ProductsOf(ps, c) == {x \in DOMAIN ps : ps[x].category_id = c}

\* f without the keys in gone.
Without(f, gone) == [x \in DOMAIN f \ gone |-> f[x]]

\* C27: a delete_category(c) call that started on categories C and products
\* P has, after its first store operation, removed the categories whose
\* parent_id is c and nothing else; after the second, c as well; after the
\* third, the products whose category_id is c as well, and it returns
\* whether c was in C. Every other category and product, the products of
\* the removed subcategories included, is stored as before.
C27_DeleteCategoryCascade ==
    (last.op = "delete_category") =>
        LET c == last.pid
            C == last.snap.categories
            P == last.snap.products
        IN /\ categories = Without(C, Children(C, c) \cup
                                      (IF last.size >= 2 THEN {c} ELSE {}))
           /\ products = Without(P, IF last.size = 3 THEN ProductsOf(P, c)
                                                     ELSE {})
           /\ last.size = 3 => last.result = <<c \in DOMAIN C>>
           /\ \A s \in Children(C, c) :
                 \A p \in ProductsOf(P, s) :
                    p \in DOMAIN products /\ products[p] = P[p]

\* delete_category("c1") has returned true: it removed c1 and its
\* subcategory c2, and product a of c2 is still stored.
C27_Witness ==
    /\ last.op = "delete_category"
    /\ last.pid = "c1"
    /\ last.size = 3
    /\ last.result = <<TRUE>>
    /\ Children(last.snap.categories, "c1") = {"c2"}
    /\ DOMAIN categories = {"c3"}
    /\ "a" \in DOMAIN products
    /\ products["a"].category_id = "c2"

\* --------------------------------------------------- properties: SpecOrders

\* An order without its status.
Created(order) == [order EXCEPT !.status = "new"]

\* C28: no step removes a stored order or changes a field of it other than
\* status: its items, total, order_number, customer fields and delivery
\* fields stay as create_order stored them.
C28_OrderFrozen ==
    [][/\ Len(orders') >= Len(orders)
       /\ \A i \in 1..Len(orders) :
             Created(orders'[i]) = Created(orders[i])]_vars

\* The first order was placed with one unit of a and is confirmed; since
\* then the cart was refilled to two units and a second order placed, and
\* the cart is filled again.
C28_Witness ==
    /\ Len(orders) = 2
    /\ orders[1].status = "confirmed"
    /\ orders[1].items[1].quantity = 1
    /\ orders[1].total = 150
    /\ orders[2].items[1].quantity = 2
    /\ orders[2].status = "new"
    /\ get_user_cart(users, 1) # <<>>

\* ---------------------------------------------------- properties: SpecPress

\* C31: a destructive button press is handled by one invocation of
\* admin_callback: the handler never calls itself on the payload it was
\* called with.
C31_NoSelfInvocation ==
    last.op = "admin_callback" => last.size <= 1

\* -------------------------------------------------- properties: SpecConfirm

\* C32: a step stores an order only when it handles confirm_order for a user
\* whose checkout is in CONFIRM_ORDER; it stores one order and ends that
\* checkout, so a flow yields at most one order. A confirm_order press in
\* any other state changes nothing.
C32_OrderOnlyOnConfirm ==
    [][/\ Len(orders') # Len(orders)
          => /\ Len(orders') = Len(orders) + 1
             /\ \E u \in BotUsers :
                   /\ conv[u] = CONFIRM_ORDER
                   /\ conv'[u] = END
                   /\ orders'[Len(orders')].user_telegram_id = u
       /\ \A u \in BotUsers :
             (conv[u] # CONFIRM_ORDER /\ ConfirmPress(u)) => UNCHANGED vars]_vars

\* An order is stored and its flow has ended; the customer has filled the
\* cart again and is at the name prompt of a second checkout, with the
\* name of the first still in user_data: a confirm_order press here has no
\* handler.
C32_Witness ==
    /\ Len(orders) = 1
    /\ conv[1] = WAITING_NAME
    /\ user_data[1].checkout_cart # <<>>
    /\ user_data[1].customer_name # None

\* ----------------------------------------------------- properties: SpecDuel

\* C35: the admins collection is never empty.
C35_AdminsNeverEmpty == admins # <<>>

\* --------------------------------------------------- properties: SpecOrphan

\* C38: every stored category with a parent_id has a stored category of that
\* id.
C38_ParentStored ==
    \A c \in DOMAIN categories :
       categories[c].parent_id # None
       => categories[c].parent_id \in DOMAIN categories

\* ----------------------------------------------------- properties: SpecPair

\* The user document of v, if one is stored.
UserRecord(us, v) == IF v \in DOMAIN us THEN <<us[v]>> ELSE <<>>

\* C37: a step that handles an update of customer u leaves the user document
\* (the cart with it), the checkout state and context.user_data of every
\* other customer as they were, whatever updates were handled before it.
C37_OtherCustomersUntouched ==
    [][\A u \in PairUsers :
          CustomerEvent(u)
          => \A v \in PairUsers \ {u} :
                /\ UserRecord(users', v) = UserRecord(users, v)
                /\ conv'[v] = conv[v]
                /\ user_data'[v] = user_data[v]]_vars

\* Customer 1 has confirmed an order, which emptied the cart of 1, while
\* customer 2 was at the confirmation with a filled cart, and still is.
C37_Witness ==
    /\ \E i \in 1..Len(orders) : orders[i].user_telegram_id = 1
    /\ 1 \in DOMAIN users /\ users[1].cart = <<>>
    /\ conv[1] = END
    /\ 2 \in DOMAIN users /\ users[2].cart # <<>>
    /\ conv[2] = CONFIRM_ORDER
    /\ user_data[2].checkout_cart = users[2].cart

====
